---- MODULE Spec2Model ----
(***************************************************************************)
(* A state-machine model of the financial dashboard: the transactions      *)
(* table and its entry paths, the transaction service, the audit trail,    *)
(* the cache manager and its decorators, backup/restore and the financial  *)
(* summary.  Each subsystem has its own specification over the shared      *)
(* variables.                                                              *)
(***************************************************************************)
EXTENDS Integers, Sequences, FiniteSets, TLC

VARIABLES
    transactions,        \* rows of table transactions (finance.db)
    tx_seq,              \* sqlite_sequence entry of transactions (AUTOINCREMENT)
    audit_logs,          \* rows of table audit_logs, in insertion order
    company_investments, \* rows of table company_investments
    inv_seq,             \* sqlite_sequence entry of company_investments
    loans,               \* rows of table loans
    loan_seq,            \* sqlite_sequence entry of loans
    cache,               \* cache store: key -> [value, expires_at, micro]
    redis_client,        \* TRUE: Redis backend; FALSE: SQLite fallback table
    tz,                  \* offset of the local clock from UTC, in seconds
    calls,               \* executions of each wrapped function (side-effect counter)
    backups,             \* backup directory: name -> content of <name>.db
    sidecars,            \* backup directory: names having <name>_metadata.json
    now,                 \* the clock (UTC seconds)
    bank_transactions,   \* rows of table bank_transactions
    bank_seq,            \* sqlite_sequence entry of bank_transactions
    budgets,             \* rows of table budgets
    budget_seq,          \* sqlite_sequence entry of budgets
    job_queue,           \* BackgroundJobProcessor.job_queue, oldest first
    workers,             \* worker thread -> idle, busy with a job, or returned
    job_log,             \* the outcome lines the workers logged, one per job
    pool,                \* DatabasePool.pool: the connections in the queue
    held,                \* connection -> number of scopes holding it
    waiting,             \* threads blocked in pool.get()
    set_log,             \* per cache key: the latest set() not followed by delete()
    users,               \* rows of table users
    user_seq,            \* sqlite_sequence entry of users
    loans_columns,       \* the column names of table loans
    currencies,          \* rows of table currencies (their codes)
    zips,                \* backup directory: the <name>.zip files and their mtime
    is_running,          \* BackgroundJobProcessor.is_running
    db_lock,             \* database._db_lock: the thread holding it, or 0
    write_lock,          \* the SQLite write lock: the thread holding it, or 0
    sessions,            \* thread -> its database call and how far it has got
    alters,              \* ALTER TABLE loans ADD COLUMN statements that succeeded
    last                 \* the last operation and what its caller observed

dbVars     == <<transactions, tx_seq, audit_logs, company_investments, inv_seq, loans, loan_seq>>
cacheVars  == <<cache, redis_client, tz, calls>>
backupVars == <<backups, sidecars>>
ledgerVars == <<bank_transactions, bank_seq, budgets, budget_seq>>
procVars   == <<job_queue, workers, job_log, pool, held, waiting, set_log>>
moreVars   == <<ledgerVars, procVars>>
accountVars == <<users, user_seq>>
schemaVars == <<loans_columns, currencies>>
lockVars   == <<db_lock, write_lock, sessions, alters>>
lateVars   == <<accountVars, schemaVars, zips, is_running, lockVars>>
vars       == <<dbVars, cacheVars, backupVars, now, moreVars, lateVars, last>>

----------------------------------------------------------------------------
(* Bounds of the model *)

MaxId       == 2      \* rows ever inserted into one table
MaxAudit    == 2      \* audit rows ever inserted
MaxTime     == 600    \* seconds the clock runs
MaxCalls    == 2      \* executions counted per wrapped function
MaxBackups  == 2      \* files created in the backup directory
MaxBankRows == 4      \* rows ever inserted into bank_transactions
MaxJobs     == 3      \* jobs ever given to the background processor
MaxWaiting  == 2      \* threads blocked in pool.get() at one time
MaxBudgets  == 4      \* rows ever inserted into budgets
MaxUsers    == 3      \* rows ever inserted into users
MaxZips     == 3      \* zip files in the backup directory at one time
MaxDays     == 8      \* days the scheduler runs

----------------------------------------------------------------------------
(* Values and text *)

\* a nullable column or optional value: <<>> is NULL / None, <<x>> holds x
NULL == <<>>
Some(x) == <<x>>

AllowedTypes == {"Income", "Expense", "Salary", "Investment", "Loan"}

\* Python values that are logged or cached: None, int, str, tuple, list, dict,
\* and objects json cannot encode (a DataFrame).  items: a sequence of strings.
PyNone       == [kind |-> "none", items |-> <<>>]
PyInt(n)     == [kind |-> "int", items |-> <<ToString(n)>>]
PyTuple(it)  == [kind |-> "tuple", items |-> it]
PyList(it)   == [kind |-> "list", items |-> it]
PyDict(it)   == [kind |-> "dict", items |-> it]

\* Python truthiness (`x if x else None`)
Truthy(v) ==
    CASE v.kind = "none"   -> FALSE
      [] v.kind = "int"    -> v.items # <<"0">>
      [] v.kind = "str"    -> v.items # <<"">>
      [] v.kind = "object" -> TRUE
      [] OTHER             -> Len(v.items) > 0

\* str(v), as an f-string renders it: a sequence of text pieces
PyStr(v) ==
    CASE v.kind = "none"   -> <<"None">>
      [] v.kind = "int"    -> v.items
      [] v.kind = "str"    -> v.items
      [] v.kind = "tuple"  -> <<"(", "'">> \o v.items \o <<"'", ")">>
      [] v.kind = "list"   -> <<"[", "'">> \o v.items \o <<"'", "]">>
      [] v.kind = "dict"   -> <<"{", "'">> \o v.items \o <<"'", "}">>
      [] OTHER             -> <<"<">> \o v.items \o <<">">>

\* json.dumps(v, default=str): tuples become arrays, strings and keys are
\* double-quoted, None is null, other objects are encoded as their str()
JsonDumps(v) ==
    CASE v.kind = "none"   -> <<"null">>
      [] v.kind = "int"    -> v.items
      [] v.kind = "str"    -> <<"\"">> \o v.items \o <<"\"">>
      [] v.kind = "tuple"  -> <<"[", "\"">> \o v.items \o <<"\"", "]">>
      [] v.kind = "list"   -> <<"[", "\"">> \o v.items \o <<"\"", "]">>
      [] v.kind = "dict"   -> <<"{", "\"">> \o v.items \o <<"\"", "}">>
      [] OTHER             -> <<"\"", "<">> \o v.items \o <<">", "\"">>

\* json.loads of a text produced by JsonDumps
JsonLoads(t) ==
    CASE t = <<"null">>     -> PyNone
      [] Len(t) = 1         -> [kind |-> "int", items |-> t]
      [] t[1] = "["         -> PyList(SubSeq(t, 3, Len(t) - 2))
      [] t[1] = "{"         -> PyDict(SubSeq(t, 3, Len(t) - 2))
      [] OTHER              -> [kind |-> "str", items |-> SubSeq(t, 2, Len(t) - 1)]

\* hashlib.sha256(text.encode()).hexdigest(): collision-free, never empty
Sha256(text) == <<"sha256:">> \o text

\* datetime.now().isoformat(): local time, 'T' between date and time, the
\* microseconds appended when they are not zero
DateOf(t) == ToString(t \div 86400)
TimeOf(t) == ToString(t % 86400)
IsoFormat(t, micro) ==
    <<DateOf(t), "T", TimeOf(t)>> \o
    (IF micro = 0 THEN <<>> ELSE <<".", ToString(micro)>>)

\* SQLite CURRENT_TIMESTAMP: UTC, a space between date and time, whole seconds
CurrentTimestamp(t) == <<DateOf(t), " ", TimeOf(t)>>

----------------------------------------------------------------------------
(* Table transactions and the Persistence Core operations on it *)

Max(S) == CHOOSE x \in S : \A y \in S : y <= x

\* a transaction as the caller hands it over
Tx(date, description, category, amount, type) ==
    [date |-> date, description |-> description, category |-> category,
     amount |-> amount, type |-> type]

\* the row an INSERT stores; the columns an INSERT does not name take their
\* defaults (currency_code 'PKR', the others NULL)
TxRow(id, tx, currency_code, base_currency_amount, exchange_rate) ==
    [id |-> id, date |-> tx.date, description |-> tx.description,
     category |-> tx.category, amount |-> tx.amount, type |-> tx.type,
     currency_code |-> currency_code,
     base_currency_amount |-> base_currency_amount,
     exchange_rate |-> exchange_rate]

\* CHECK(type IN (...)) of CREATE TABLE transactions; amount has no constraint
TypeCheck(tx) == tx.type \in AllowedTypes

\* INTEGER PRIMARY KEY AUTOINCREMENT: one more than the largest id ever used
NextRowId(rows, seq) == Max({seq} \cup {r.id : r \in rows}) + 1

RowIds == {r.id : r \in transactions}
RowById(id) == CHOOSE r \in transactions : r.id = id

\* INSERT INTO transactions ...: the new table and sequence
InsertedRows(tx, cc, base, rate) ==
    transactions \cup {TxRow(NextRowId(transactions, tx_seq), tx, cc, base, rate)}

\* UPDATE transactions SET date, description, category, amount, type WHERE id = ?
UpdatedRows(id, tx) ==
    {IF r.id = id
     THEN [r EXCEPT !.date = tx.date, !.description = tx.description,
                    !.category = tx.category, !.amount = tx.amount,
                    !.type = tx.type]
     ELSE r : r \in transactions}

Outcome(op, outcome, detail) == [op |-> op, outcome |-> outcome, detail |-> detail]

\* database.add_transaction: no validation besides the table's constraints
DbAddTransaction(tx) ==
    /\ tx_seq < MaxId
    /\ IF TypeCheck(tx)
       THEN /\ transactions' = InsertedRows(tx, "PKR", NULL, NULL)
            /\ tx_seq' = NextRowId(transactions, tx_seq)
            /\ last' = Outcome("add_transaction", "ok", <<>>)
       ELSE /\ UNCHANGED <<transactions, tx_seq>>
            /\ last' = Outcome("add_transaction", "IntegrityError", <<>>)
    /\ UNCHANGED <<audit_logs, company_investments, inv_seq, loans, loan_seq,
                   cacheVars, backupVars, now, moreVars, lateVars>>

\* database.update_transaction
DbUpdateTransaction(id, tx) ==
    /\ IF id \in RowIds /\ ~TypeCheck(tx)
       THEN /\ UNCHANGED transactions
            /\ last' = Outcome("update_transaction", "IntegrityError", <<>>)
       ELSE /\ transactions' = UpdatedRows(id, tx)
            /\ last' = Outcome("update_transaction", "ok", <<>>)
    /\ UNCHANGED <<tx_seq, audit_logs, company_investments, inv_seq, loans,
                   loan_seq, cacheVars, backupVars, now, moreVars, lateVars>>

\* database.delete_transaction
DbDeleteTransaction(id) ==
    /\ transactions' = {r \in transactions : r.id # id}
    /\ last' = Outcome("delete_transaction", "ok", <<>>)
    /\ UNCHANGED <<tx_seq, audit_logs, company_investments, inv_seq, loans,
                   loan_seq, cacheVars, backupVars, now, moreVars, lateVars>>

----------------------------------------------------------------------------
(* Dashboard UI: the Add Transaction page (app.py, show_add_transaction) *)

\* str.strip() leaves nothing of a blank string
Blank(s) == s \in {"", " "}

\* the manual-entry form's validate_transaction: the list of error messages
UiValidate(tx) ==
    (IF Blank(tx.description) THEN <<"Description is required">> ELSE <<>>) \o
    (IF Blank(tx.category) THEN <<"Category is required">> ELSE <<>>) \o
    (IF tx.amount <= 0 THEN <<"Amount must be greater than 0">> ELSE <<>>) \o
    (IF tx.date = "" THEN <<"Date is required">> ELSE <<>>)

\* manual transaction entry: number_input(min_value=0.0), the type from a
\* selectbox of the five types; inserts only when validation finds nothing
UiManualEntry(tx) ==
    /\ tx.amount >= 0
    /\ tx.type \in AllowedTypes
    /\ tx_seq < MaxId
    /\ IF UiValidate(tx) # <<>>
       THEN /\ UNCHANGED <<transactions, tx_seq>>
            /\ last' = Outcome("ui_manual_entry", "rejected", UiValidate(tx))
       ELSE /\ transactions' = InsertedRows(tx, "PKR", NULL, NULL)
            /\ tx_seq' = NextRowId(transactions, tx_seq)
            /\ last' = Outcome("ui_manual_entry", "ok", <<>>)
    /\ UNCHANGED <<audit_logs, company_investments, inv_seq, loans, loan_seq,
                   cacheVars, backupVars, now, moreVars, lateVars>>

\* the quick-add templates: what each passes to add_transaction
QuickAddTemplates == {"client_payment", "vendor_payment", "loan_received"}
QuickAddTx(template, date, name, amount) ==
    CASE template = "client_payment" ->
            Tx(date, "Payment received from " \o name \o " for services",
               "Income", amount, "Income")
      [] template = "vendor_payment" ->
            Tx(date, "Payment to " \o name \o " for services",
               "Expense", amount, "Expense")
      [] OTHER ->
            Tx(date, "Loan received from " \o name \o " (Business)",
               "Business", amount, "Income")

\* a quick-add button: acts only when amount > 0 and the name is not empty
UiQuickAdd(template, date, name, amount) ==
    /\ amount >= 0
    /\ tx_seq < MaxId
    /\ IF amount > 0 /\ name # ""
       THEN /\ transactions' = InsertedRows(QuickAddTx(template, date, name, amount),
                                            "PKR", NULL, NULL)
            /\ tx_seq' = NextRowId(transactions, tx_seq)
            /\ last' = Outcome("ui_quick_add", "ok", <<>>)
       ELSE /\ UNCHANGED <<transactions, tx_seq>>
            /\ last' = Outcome("ui_quick_add", "ignored", <<>>)
    /\ UNCHANGED <<audit_logs, company_investments, inv_seq, loans, loan_seq,
                   cacheVars, backupVars, now, moreVars, lateVars>>

\* the edit form of an existing row: number_input without min_value and no
\* validation before update_transaction; the type from the selectbox
UiEditForm(id, tx) ==
    /\ id \in RowIds
    /\ tx.type \in AllowedTypes
    /\ transactions' = UpdatedRows(id, tx)
    /\ last' = Outcome("ui_edit_form", "ok", <<>>)
    /\ UNCHANGED <<tx_seq, audit_logs, company_investments, inv_seq, loans,
                   loan_seq, cacheVars, backupVars, now, moreVars, lateVars>>

----------------------------------------------------------------------------
(* Audit trail (audit_trail.py) *)

\* str() of an optional integer: "None" or its digits
OptStr(o) == IF o = NULL THEN <<"None">> ELSE <<ToString(o[1])>>

\* the text log_action hashes: the f-string of the arguments as passed and of
\* the local time of the call, microseconds included
DataToHash(entity_type, entity_id, action, old_values, new_values, user_id, micro) ==
    <<entity_type, ToString(entity_id), action>> \o PyStr(old_values) \o
    PyStr(new_values) \o OptStr(user_id) \o IsoFormat(now + tz, micro)

\* the row log_action inserts: old/new values as JSON text or NULL when falsy,
\* the timestamp column from its default CURRENT_TIMESTAMP
AuditRow(entity_type, entity_id, action, old_values, new_values, user_id, micro) ==
    [id |-> Len(audit_logs) + 1,
     entity_type |-> entity_type,
     entity_id |-> entity_id,
     action |-> action,
     old_values |-> IF Truthy(old_values) THEN Some(JsonDumps(old_values)) ELSE NULL,
     new_values |-> IF Truthy(new_values) THEN Some(JsonDumps(new_values)) ELSE NULL,
     user_id |-> user_id,
     timestamp |-> CurrentTimestamp(now),
     hash_value |-> Sha256(DataToHash(entity_type, entity_id, action, old_values,
                                      new_values, user_id, micro))]

\* AuditTrail.log_action, called directly
LogAction(entity_type, entity_id, action, old_values, new_values, user_id, micro) ==
    /\ Len(audit_logs) < MaxAudit
    /\ audit_logs' = Append(audit_logs,
                            AuditRow(entity_type, entity_id, action, old_values,
                                     new_values, user_id, micro))
    /\ last' = Outcome("log_action", "ok", <<>>)
    /\ UNCHANGED <<transactions, tx_seq, company_investments, inv_seq, loans,
                   loan_seq, cacheVars, backupVars, now, moreVars, lateVars>>

\* SELECT * of one transactions row, as the tuple fetchone() returns
RowTuple(r) ==
    PyTuple(<<ToString(r.id), r.date, r.description, r.category,
              ToString(r.amount), r.type>>)

\* the dict of new values audit_trail.update_transaction logs
NewValuesDict(tx) ==
    PyDict(<<"date", tx.date, "description", tx.description, "category",
             tx.category, "amount", ToString(tx.amount), "type", tx.type>>)

\* audit_trail.update_transaction: read the old row, update, log the change
AuditedUpdateTransaction(id, tx, micro) ==
    /\ Len(audit_logs) < MaxAudit
    /\ IF id \in RowIds /\ ~TypeCheck(tx)
       THEN /\ UNCHANGED <<transactions, audit_logs>>
            /\ last' = Outcome("audited_update", "IntegrityError", <<>>)
       ELSE /\ transactions' = UpdatedRows(id, tx)
            /\ audit_logs' = Append(audit_logs,
                   AuditRow("transaction", id, "UPDATE",
                            IF id \in RowIds THEN RowTuple(RowById(id)) ELSE PyNone,
                            NewValuesDict(tx), NULL, micro))
            /\ last' = Outcome("audited_update", "ok", <<>>)
    /\ UNCHANGED <<tx_seq, company_investments, inv_seq, loans, loan_seq,
                   cacheVars, backupVars, now, moreVars, lateVars>>

----------------------------------------------------------------------------
(* Currency manager (currency_manager.py) *)

BaseCurrency == "PKR"

\* convert_amount: identity for equal currencies, else amount * rate, the rate
\* being what the external feed answered (1 when the feed failed)
ConvertAmount(amount, from_currency, to_currency, feed_rate) ==
    IF from_currency = to_currency THEN amount ELSE amount * feed_rate

\* the effective rate base_amount / amount, 1 when amount is 0
EffectiveRate(amount, base_amount) ==
    IF amount # 0 THEN base_amount \div amount ELSE 1

\* CurrencyManager.add_transaction_with_currency: no validation
AddTransactionWithCurrency(tx, currency_code, feed_rate) ==
    /\ tx_seq < MaxId
    /\ IF TypeCheck(tx)
       THEN LET base == ConvertAmount(tx.amount, currency_code, BaseCurrency, feed_rate)
            IN  /\ transactions' = InsertedRows(tx, currency_code, Some(base),
                                       Some(EffectiveRate(tx.amount, base)))
                /\ tx_seq' = NextRowId(transactions, tx_seq)
                /\ last' = Outcome("add_transaction_with_currency", "ok", <<>>)
       ELSE /\ UNCHANGED <<transactions, tx_seq>>
            /\ last' = Outcome("add_transaction_with_currency", "IntegrityError", <<>>)
    /\ UNCHANGED <<audit_logs, company_investments, inv_seq, loans, loan_seq,
                   cacheVars, backupVars, now, moreVars, lateVars>>

----------------------------------------------------------------------------
(* REST API (api/main.py) *)

\* what a request carries as bearer credentials
TokenKinds == {"missing", "malformed", "bad_signature", "valid"}

\* The outcome of the dependency verify_token, as an HTTP status (200: the
\* payload is returned).  A request without credentials is refused by
\* HTTPBearer before verify_token runs, with the status of the installed
\* framework version (no_credentials_status).  jwt.decode raises for a
\* malformed or wrongly signed token; the handler names jwt.JWTError, which the
\* imported jwt module does not define, so evaluating the except clause raises
\* AttributeError and the request ends as an internal server error.
VerifyToken(token, no_credentials_status) ==
    CASE token = "missing" -> no_credentials_status
      [] token = "valid"   -> 200
      [] OTHER             -> 500

\* tx.dict() of the posted TransactionCreate
TxDict(tx, currency_code) ==
    PyDict(<<"date", tx.date, "description", tx.description, "category",
             tx.category, "amount", ToString(tx.amount), "type", tx.type,
             "currency_code", currency_code>>)

\* POST /api/v1/transactions
ApiCreateTransaction(token, no_credentials_status, user_id, tx, currency_code, feed_rate, micro) ==
    /\ tx_seq < MaxId
    /\ Len(audit_logs) < MaxAudit
    /\ LET status == VerifyToken(token, no_credentials_status)
           base == ConvertAmount(tx.amount, currency_code, "PKR", feed_rate)
       IN  IF status # 200
           THEN /\ UNCHANGED <<transactions, tx_seq, audit_logs>>
                /\ last' = Outcome("api_create_transaction", "rejected",
                                   [status |-> status, token |-> token])
           ELSE IF ~TypeCheck(tx)
           THEN /\ UNCHANGED <<transactions, tx_seq, audit_logs>>
                /\ last' = Outcome("api_create_transaction", "IntegrityError",
                                   [status |-> 500, token |-> token])
           ELSE /\ transactions' = InsertedRows(tx, currency_code, Some(base), NULL)
                /\ tx_seq' = NextRowId(transactions, tx_seq)
                /\ audit_logs' = Append(audit_logs,
                       AuditRow("transaction", NextRowId(transactions, tx_seq),
                                "CREATE", PyNone, TxDict(tx, currency_code),
                                user_id, micro))
                /\ last' = Outcome("api_create_transaction", "ok",
                                   [status |-> 200, token |-> token])
    /\ UNCHANGED <<company_investments, inv_seq, loans, loan_seq,
                   cacheVars, backupVars, now, moreVars, lateVars>>

-----------------------------------------------------------------------------------------------------------------------------------------------------
(* Cache manager and its decorators (caching.py) *)

default_ttl == 300

\* the key a purpose-specific decorator builds: prefix, function name, arguments
CacheKey(prefix, func, arg) == [prefix |-> prefix, func |-> func, arg |-> arg]

\* SQLite compares the stored expires_at text ('YYYY-MM-DD HH:MM:SS.ffffff',
\* the fraction present when not zero) with CURRENT_TIMESTAMP
\* ('YYYY-MM-DD HH:MM:SS') as strings
TextGreater(sec, micro, current_sec) ==
    sec > current_sec \/ (sec = current_sec /\ micro > 0)

\* whether get() still finds the entry: Redis drops it ttl seconds after
\* setex; the fallback table selects it WHERE expires_at > CURRENT_TIMESTAMP
Live(e) ==
    IF redis_client THEN e.expires_at > now
    ELSE TextGreater(e.expires_at, e.micro, now)

\* CacheManager.get: the decoded value, or None
CacheGet(key) ==
    IF \E e \in cache : e.key = key /\ Live(e)
    THEN JsonLoads((CHOOSE e \in cache : e.key = key /\ Live(e)).value)
    ELSE PyNone

\* CacheManager.set: ttl falls back to default_ttl when None or 0; setex and
\* INSERT OR REPLACE both overwrite the key's entry.  The fallback stores
\* the local time plus ttl.
CacheSet(key, value, ttl, micro) ==
    LET t == IF ttl = 0 THEN default_ttl ELSE ttl
    IN  {e \in cache : e.key # key} \cup
        {[key |-> key, value |-> JsonDumps(value),
          expires_at |-> IF redis_client THEN now + t ELSE now + tz + t,
          micro |-> IF redis_client THEN 0 ELSE micro]}

\* invalidate_cache_pattern: its body is `pass`
InvalidateCachePattern(c, pattern) == c

\* invalidate_transaction_cache
InvalidateTransactionCache(c) ==
    InvalidateCachePattern(
        InvalidateCachePattern(
            InvalidateCachePattern(c, "report_"), "financial_summary_"),
        "dashboard_kpis_")

TransactionPrefixes == {"report_", "financial_summary_", "dashboard_kpis_"}

\* The functions that are wrapped: test_function of the test suite (x * 2),
\* and two report methods of AdvancedReporting: cash_flow_forecasting returns
\* a DataFrame computed from the transactions, create_visual_report returns
\* None when there is no data and a figure otherwise.
SumAmounts == LET RECURSIVE Sum(_)
                  Sum(S) == IF S = {} THEN 0
                            ELSE LET r == CHOOSE x \in S : TRUE
                                 IN  r.amount + Sum(S \ {r})
              IN  Sum(transactions)
WrappedResult(func, arg) ==
    CASE func = "test_function" -> PyInt(arg * 2)
      [] func = "cash_flow_forecasting" ->
            [kind |-> "object",
             items |-> <<"DataFrame", ToString(Cardinality(transactions)),
                         ToString(SumAmounts)>>]
      [] OTHER ->
            IF transactions = {} THEN PyNone
            ELSE [kind |-> "object", items |-> <<"Figure", ToString(SumAmounts)>>]

\* the executions of a wrapped function seen so far for a key: how many, and
\* the time, ttl and result of the latest
Executions(key) == {c \in calls : c.key = key}
Executed(key, result, ttl) ==
    {c \in calls : c.key # key} \cup
    {[key |-> key,
      n |-> IF Executions(key) = {} THEN 1
            ELSE (CHOOSE c \in calls : c.key = key).n + 1,
      at |-> now, ttl |-> IF ttl = 0 THEN default_ttl ELSE ttl,
      result |-> result]}

\* a call of a function wrapped by cache_report_data(ttl) and its siblings
\* (the wrapper of CacheManager.cache_function has the same body): a cached
\* value that is not None is returned; otherwise the function runs and its
\* result is stored
CachedCall(prefix, func, arg, ttl, micro) ==
    LET key == CacheKey(prefix, func, arg)
        cached_result == CacheGet(key)
    IN  /\ \A c \in Executions(key) : c.n < MaxCalls
        /\ IF cached_result # PyNone
           THEN /\ UNCHANGED <<cache, calls>>
                /\ last' = Outcome("cached_call", "hit",
                                   [key |-> key, result |-> cached_result])
           ELSE /\ cache' = CacheSet(key, WrappedResult(func, arg), ttl, micro)
                /\ calls' = Executed(key, WrappedResult(func, arg), ttl)
                /\ last' = Outcome("cached_call", "executed",
                                   [key |-> key, result |-> WrappedResult(func, arg)])
        /\ UNCHANGED <<dbVars, redis_client, tz, backupVars, now, moreVars, lateVars>>

\* CacheManager.delete: the key's entry is removed from the store in use
CacheDelete(key) == {e \in cache : e.key # key}

\* cache_manager.set(key, value, ttl) called directly; 0 stands for no ttl
ManagerSet(key, value, ttl, micro) ==
    /\ cache' = CacheSet(key, value, ttl, micro)
    /\ set_log' = {s \in set_log : s.key # key} \cup
                  {[key |-> key, value |-> value, at |-> now, micro |-> micro,
                    ttl |-> IF ttl = 0 THEN default_ttl ELSE ttl]}
    /\ last' = Outcome("cache_set", "ok", [key |-> key])
    /\ UNCHANGED <<dbVars, redis_client, tz, calls, backupVars, now, ledgerVars,
                   job_queue, workers, job_log, pool, held, waiting, lateVars>>

\* cache_manager.get(key) called directly
ManagerGet(key) ==
    /\ last' = Outcome("cache_get", "ok", [key |-> key, result |-> CacheGet(key)])
    /\ UNCHANGED <<dbVars, cacheVars, backupVars, now, moreVars, lateVars>>

\* cache_manager.delete(key) called directly
ManagerDelete(key) ==
    /\ cache' = CacheDelete(key)
    /\ set_log' = {s \in set_log : s.key # key}
    /\ last' = Outcome("cache_delete", "ok", [key |-> key])
    /\ UNCHANGED <<dbVars, redis_client, tz, calls, backupVars, now, ledgerVars,
                   job_queue, workers, job_log, pool, held, waiting, lateVars>>

TickSteps == {150, 300}

\* time passes
Tick(dt) ==
    /\ now + dt <= MaxTime
    /\ now' = now + dt
    /\ last' = Outcome("tick", "ok", <<>>)
    /\ UNCHANGED <<dbVars, cacheVars, backupVars, moreVars, lateVars>>

----------------------------------------------------------------------------
(* Transaction service and its repository (application/transaction_service.py,
   infrastructure/repositories.py) *)

\* a Transaction entity: the transaction and its optional id, with the
\* dataclass defaults for the currency columns
Entity(id, tx) == [id |-> id, tx |-> tx, currency_code |-> "PKR",
                   base_currency_amount |-> NULL, exchange_rate |-> NULL]

\* `not transaction.id`: None and 0 are falsy
NoId(entity) == entity.id = NULL \/ entity.id = Some(0)

\* a validation that stops at the first violated rule
ValidateFailFast(tx) ==
    IF Blank(tx.description) THEN <<"Description is required">>
    ELSE IF Blank(tx.category) THEN <<"Category is required">>
    ELSE IF tx.amount <= 0 THEN <<"Amount must be greater than 0">>
    ELSE IF tx.type \notin AllowedTypes THEN <<"Invalid transaction type">>
    ELSE <<>>

\* _validate_transaction: every violated rule's message, in the code's order
Validate(tx) ==
    (IF Blank(tx.description) THEN <<"Description is required">> ELSE <<>>) \o
    (IF Blank(tx.category) THEN <<"Category is required">> ELSE <<>>) \o
    (IF tx.amount <= 0 THEN <<"Amount must be greater than 0">> ELSE <<>>) \o
    (IF tx.type \notin AllowedTypes THEN <<"Invalid transaction type">> ELSE <<>>)

\* what the service call leaves in `last`
SvcOutcome(op, outcome, entity, errors, invalidated, result) ==
    Outcome(op, outcome, [entity |-> entity, errors |-> errors,
                          invalidated |-> invalidated, result |-> result])

\* SQLiteTransactionRepository.update: all eight columns of the row
RepoUpdatedRows(entity) ==
    {IF Some(r.id) = entity.id
     THEN TxRow(r.id, entity.tx, entity.currency_code,
                entity.base_currency_amount, entity.exchange_rate)
     ELSE r : r \in transactions}

\* TransactionService.create_transaction
SvcCreateTransaction(entity) ==
    /\ tx_seq < MaxId
    /\ IF Validate(entity.tx) # <<>>
       THEN /\ UNCHANGED <<transactions, tx_seq, cache>>
            /\ last' = SvcOutcome("svc_create", "ValidationError", entity,
                                  Validate(entity.tx), FALSE, NULL)
       ELSE /\ transactions' = InsertedRows(entity.tx, entity.currency_code,
                                   entity.base_currency_amount, entity.exchange_rate)
            /\ tx_seq' = NextRowId(transactions, tx_seq)
            /\ cache' = InvalidateTransactionCache(cache)
            /\ last' = SvcOutcome("svc_create", "ok", entity, <<>>, TRUE,
                                  Some(NextRowId(transactions, tx_seq)))
    /\ UNCHANGED <<audit_logs, company_investments, inv_seq, loans, loan_seq,
                   redis_client, tz, calls, backupVars, now, moreVars, lateVars>>

\* TransactionService.update_transaction
SvcUpdateTransaction(entity) ==
    /\ IF NoId(entity)
       THEN /\ UNCHANGED <<transactions, cache>>
            /\ last' = SvcOutcome("svc_update", "ValidationError", entity,
                                  <<"Transaction ID is required for update">>,
                                  FALSE, NULL)
       ELSE IF Validate(entity.tx) # <<>>
       THEN /\ UNCHANGED <<transactions, cache>>
            /\ last' = SvcOutcome("svc_update", "ValidationError", entity,
                                  Validate(entity.tx), FALSE, NULL)
       ELSE LET updated == entity.id[1] \in RowIds
            IN  /\ transactions' = RepoUpdatedRows(entity)
                /\ cache' = IF updated THEN InvalidateTransactionCache(cache)
                            ELSE cache
                /\ last' = SvcOutcome("svc_update", "ok", entity, <<>>, updated,
                                      Some(updated))
    /\ UNCHANGED <<tx_seq, audit_logs, company_investments, inv_seq, loans,
                   loan_seq, redis_client, tz, calls, backupVars, now, moreVars, lateVars>>

\* TransactionService.delete_transaction
SvcDeleteTransaction(id) ==
    /\ LET deleted == id \in RowIds
       IN  /\ transactions' = {r \in transactions : r.id # id}
           /\ cache' = IF deleted THEN InvalidateTransactionCache(cache) ELSE cache
           /\ last' = SvcOutcome("svc_delete", "ok", [id |-> Some(id)],
                                 <<>>, deleted, Some(deleted))
    /\ UNCHANGED <<tx_seq, audit_logs, company_investments, inv_seq, loans,
                   loan_seq, redis_client, tz, calls, backupVars, now, moreVars, lateVars>>

----------------------------------------------------------------------------
(* Backup and restore (backup_restore.py) and the wipe scripts (clear_data.py).
   finance.db is modelled by what it holds: every table of the model and the
   autoincrement counters, the journal taken as checkpointed into the file;
   the fallback cache table lives in the same file. *)

DbFile ==
    [transactions |-> transactions, tx_seq |-> tx_seq,
     audit_logs |-> audit_logs,
     company_investments |-> company_investments, inv_seq |-> inv_seq,
     loans |-> loans, loan_seq |-> loan_seq,
     bank_transactions |-> bank_transactions, bank_seq |-> bank_seq,
     budgets |-> budgets, budget_seq |-> budget_seq,
     users |-> users, user_seq |-> user_seq,
     loans_columns |-> loans_columns, currencies |-> currencies,
     cache_table |-> IF redis_client THEN {} ELSE cache]

BackupNames == {b.name : b \in backups}
BackupFile(name) == (CHOOSE b \in backups : b.name = name).file

\* shutil.copy2 into the backup directory: creates or overwrites <name>.db
CopyInto(dir, name, file) ==
    {b \in dir : b.name # name} \cup {[name |-> name, file |-> file]}

\* strftime("%Y%m%d_%H%M%S") of the local time
StampOf(t) == ToString(t)

\* the name create_backup() chooses when none is given
DefaultBackupName == <<"backup", StampOf(now + tz)>>

\* the name restore_backup gives its safety backup
SafetyName(backup_name) ==
    <<"before_restore">> \o backup_name \o <<StampOf(now + tz)>>

\* create_backup(backup_name): copy the database file, write the sidecar;
\* an empty name stands for the default None
CreateBackup(backup_name) ==
    LET name == IF backup_name = <<>> THEN DefaultBackupName ELSE backup_name
    IN  /\ name \notin BackupNames => Cardinality(backups) < MaxBackups
        /\ backups' = CopyInto(backups, name, DbFile)
        /\ sidecars' = sidecars \cup {name}
        /\ last' = Outcome("create_backup", "ok", [name |-> name])
        /\ UNCHANGED <<dbVars, cacheVars, now, moreVars, lateVars>>

\* delete_backup(backup_name): remove the file and the sidecar when present
DeleteBackup(backup_name) ==
    /\ backups' = {b \in backups : b.name # backup_name}
    /\ sidecars' = sidecars \ {backup_name}
    /\ last' = Outcome("delete_backup", "ok", [name |-> backup_name])
    /\ UNCHANGED <<dbVars, cacheVars, now, moreVars, lateVars>>

\* the tables of the live database after its file is replaced by `file`
Overwritten(file) ==
    /\ transactions' = file.transactions
    /\ tx_seq' = file.tx_seq
    /\ audit_logs' = file.audit_logs
    /\ company_investments' = file.company_investments
    /\ inv_seq' = file.inv_seq
    /\ loans' = file.loans
    /\ loan_seq' = file.loan_seq
    /\ bank_transactions' = file.bank_transactions
    /\ bank_seq' = file.bank_seq
    /\ budgets' = file.budgets
    /\ budget_seq' = file.budget_seq
    /\ users' = file.users
    /\ user_seq' = file.user_seq
    /\ loans_columns' = file.loans_columns
    /\ currencies' = file.currencies
    /\ cache' = IF redis_client THEN cache ELSE file.cache_table

RestoreOutcome(outcome, backup_name, safety) ==
    Outcome("restore_backup", outcome, [name |-> backup_name, safety |-> safety])

\* restore that replaces the live file first and copies it afterwards
RestoreBackupOverwriteFirst(backup_name) ==
    /\ (backup_name \in BackupNames /\ SafetyName(backup_name) \notin BackupNames)
          => Cardinality(backups) < MaxBackups
    /\ IF backup_name \notin BackupNames
       THEN /\ UNCHANGED <<dbVars, ledgerVars, accountVars, schemaVars, cache, backupVars>>
            /\ last' = RestoreOutcome("FileNotFoundError", backup_name, <<>>)
       ELSE /\ Overwritten(BackupFile(backup_name))
            /\ backups' = CopyInto(backups, SafetyName(backup_name),
                                   BackupFile(backup_name))
            /\ sidecars' = sidecars \cup {SafetyName(backup_name)}
            /\ last' = RestoreOutcome("ok", backup_name, SafetyName(backup_name))
    /\ UNCHANGED <<redis_client, tz, calls, now, procVars, zips, is_running, lockVars>>

\* restore that looks for the backup file only after the safety backup
RestoreBackupCheckLast(backup_name) ==
    /\ SafetyName(backup_name) \notin BackupNames
          => Cardinality(backups) < MaxBackups
    /\ backups' = CopyInto(backups, SafetyName(backup_name), DbFile)
    /\ sidecars' = sidecars \cup {SafetyName(backup_name)}
    /\ IF backup_name \notin BackupNames
       THEN /\ UNCHANGED <<dbVars, ledgerVars, accountVars, schemaVars, cache>>
            /\ last' = RestoreOutcome("FileNotFoundError", backup_name, <<>>)
       ELSE /\ Overwritten(BackupFile(backup_name))
            /\ last' = RestoreOutcome("ok", backup_name, SafetyName(backup_name))
    /\ UNCHANGED <<redis_client, tz, calls, now, procVars, zips, is_running, lockVars>>

\* restore_backup(backup_name): FileNotFoundError when <name>.db is absent;
\* otherwise create_backup("before_restore_<name>_<stamp>") of the current
\* file, then copy the backup over the live file
RestoreBackup(backup_name) ==
    /\ (backup_name \in BackupNames /\ SafetyName(backup_name) \notin BackupNames)
          => Cardinality(backups) < MaxBackups
    /\ IF backup_name \notin BackupNames
       THEN /\ UNCHANGED <<dbVars, ledgerVars, accountVars, schemaVars, cache, backupVars>>
            /\ last' = RestoreOutcome("FileNotFoundError", backup_name, <<>>)
       ELSE /\ backups' = CopyInto(backups, SafetyName(backup_name), DbFile)
            /\ sidecars' = sidecars \cup {SafetyName(backup_name)}
            /\ Overwritten(BackupFile(backup_name))
            /\ last' = RestoreOutcome("ok", backup_name, SafetyName(backup_name))
    /\ UNCHANGED <<redis_client, tz, calls, now, procVars, zips, is_running, lockVars>>

\* a wipe that also empties the audit log
ClearDatabaseWithAudit ==
    /\ transactions' = {}
    /\ tx_seq' = 0
    /\ budgets' = {}
    /\ budget_seq' = 0
    /\ audit_logs' = <<>>
    /\ last' = Outcome("clear_database", "ok", <<>>)
    /\ UNCHANGED <<company_investments, inv_seq, loans, loan_seq,
                   cacheVars, backupVars, now,
                   bank_transactions, bank_seq, procVars, lateVars>>

\* clear_database(): DELETE FROM transactions (employees, budgets) and reset
\* their autoincrement counters; no other table is touched
ClearDatabase ==
    /\ transactions' = {}
    /\ tx_seq' = 0
    /\ budgets' = {}
    /\ budget_seq' = 0
    /\ last' = Outcome("clear_database", "ok", <<>>)
    /\ UNCHANGED <<audit_logs, company_investments, inv_seq, loans, loan_seq,
                   cacheVars, backupVars, now,
                   bank_transactions, bank_seq, procVars, lateVars>>

\* reset_database(): DROP TABLE transactions (employees, budgets), which
\* also drops their counters; init_db recreates the tables empty when the
\* application starts again
ResetDatabase ==
    /\ transactions' = {}
    /\ tx_seq' = 0
    /\ budgets' = {}
    /\ budget_seq' = 0
    /\ last' = Outcome("reset_database", "ok", <<>>)
    /\ UNCHANGED <<audit_logs, company_investments, inv_seq, loans, loan_seq,
                   cacheVars, backupVars, now,
                   bank_transactions, bank_seq, procVars, lateVars>>

----------------------------------------------------------------------------
(* Investments, loans and the financial summary (database.py) *)

\* add_investment: the amount is the only column the summary reads
AddInvestment(amount) ==
    /\ inv_seq < MaxId
    /\ company_investments' = company_investments \cup
           {[id |-> NextRowId(company_investments, inv_seq), amount |-> amount]}
    /\ inv_seq' = NextRowId(company_investments, inv_seq)
    /\ last' = Outcome("add_investment", "ok", <<>>)
    /\ UNCHANGED <<transactions, tx_seq, audit_logs, loans, loan_seq,
                   cacheVars, backupVars, now, moreVars, lateVars>>

\* delete_investment
DeleteInvestment(id) ==
    /\ company_investments' = {r \in company_investments : r.id # id}
    /\ last' = Outcome("delete_investment", "ok", <<>>)
    /\ UNCHANGED <<transactions, tx_seq, audit_logs, inv_seq, loans, loan_seq,
                   cacheVars, backupVars, now, moreVars, lateVars>>

LoanDirections == {"Inbound", "Outbound"}

\* add_loan: principal_amount and loan_direction are what the summary reads
AddLoan(principal_amount, loan_direction) ==
    /\ loan_seq < MaxId
    /\ loans' = loans \cup
           {[id |-> NextRowId(loans, loan_seq),
             principal_amount |-> principal_amount,
             loan_direction |-> loan_direction]}
    /\ loan_seq' = NextRowId(loans, loan_seq)
    /\ last' = Outcome("add_loan", "ok", <<>>)
    /\ UNCHANGED <<transactions, tx_seq, audit_logs, company_investments,
                   inv_seq, cacheVars, backupVars, now, moreVars, lateVars>>

\* delete_loan
DeleteLoan(id) ==
    /\ loans' = {r \in loans : r.id # id}
    /\ last' = Outcome("delete_loan", "ok", <<>>)
    /\ UNCHANGED <<transactions, tx_seq, audit_logs, company_investments,
                   inv_seq, loan_seq, cacheVars, backupVars, now, moreVars, lateVars>>

\* SQL SUM over a set of (id, value) pairs: NULL over no rows
RECURSIVE Total(_)
Total(pairs) ==
    IF pairs = {} THEN 0
    ELSE LET p == CHOOSE x \in pairs : TRUE
         IN  p.value + Total(pairs \ {p})
SqlSum(pairs) == IF pairs = {} THEN NULL ELSE Some(Total(pairs))

\* SQL + and -: NULL when either operand is NULL
SqlAdd(a, b) == IF a = NULL \/ b = NULL THEN NULL ELSE Some(a[1] + b[1])
SqlSub(a, b) == IF a = NULL \/ b = NULL THEN NULL ELSE Some(a[1] - b[1])

\* `x if not df.empty and x else 0`: NULL and 0 both give 0
OrZero(x) == IF x = NULL THEN 0 ELSE x[1]

AmountsOfType(types) ==
    {[id |-> r.id, value |-> r.amount] : r \in {t \in transactions : t.type \in types}}
InvestmentAmounts ==
    {[id |-> r.id, value |-> r.amount] : r \in company_investments}
InboundPrincipals ==
    {[id |-> r.id, value |-> r.principal_amount] :
        r \in {l \in loans : l.loan_direction = "Inbound"}}

\* the dict get_financial_summary returns
FinancialSummary ==
    LET total_revenue == OrZero(SqlSum(AmountsOfType({"Income"})))
                         + OrZero(SqlSum(InvestmentAmounts))
                         + OrZero(SqlSum(InboundPrincipals))
        total_expenses == OrZero(SqlSum(AmountsOfType({"Expense", "Salary"})))
        cash_balance == OrZero(
            SqlSub(SqlAdd(SqlAdd(SqlSum(AmountsOfType({"Income"})),
                                 SqlSum(InvestmentAmounts)),
                          SqlSum(InboundPrincipals)),
                   SqlSum(AmountsOfType({"Expense", "Salary"}))))
    IN  [total_revenue |-> total_revenue,
         total_expenses |-> total_expenses,
         net_profit |-> total_revenue - total_expenses,
         cash_balance |-> cash_balance]

\* get_financial_summary()
GetFinancialSummary ==
    /\ last' = Outcome("get_financial_summary", "ok", FinancialSummary)
    /\ UNCHANGED <<dbVars, cacheVars, backupVars, now, moreVars, lateVars>>

----------------------------------------------------------------------------
(* Bank import and matching (bank_integration.py) *)

\* the threshold of BankIntegration.__init__, 0.8, as a fraction
match_threshold == <<4, 5>>

\* what get_db_connection() hands out: sqlite3.connect() with no row_factory,
\* so a fetched row is a plain tuple
row_factory == "tuple"

\* a row of bank_transactions; no column but id carries a uniqueness
\* constraint
BankRow(id, bank_account_id, external_id, date, description, amount, currency) ==
    [id |-> id, bank_account_id |-> bank_account_id,
     external_transaction_id |-> external_id, date |-> date,
     description |-> description, amount |-> amount,
     currency_code |-> currency, status |-> "pending"]

\* one element of transactions_data: a dict whose keys may be missing
BankTx(external_id, date, description, amount) ==
    [external_id |-> external_id, date |-> date,
     description |-> description, amount |-> amount]

\* INSERT OR IGNORE skips a row only when it violates a constraint of the
\* table: here NOT NULL on date, description and amount
BankConflict(rows, tx) ==
    tx.date = NULL \/ tx.description = NULL \/ tx.amount = NULL

\* the loop of import_bank_transactions over transactions_data
RECURSIVE ImportLoop(_, _, _, _)
ImportLoop(rows, seq, bank_account_id, data) ==
    IF data = <<>> THEN [rows |-> rows, seq |-> seq]
    ELSE LET tx == Head(data)
         IN  IF BankConflict(rows, tx)
             THEN ImportLoop(rows, seq, bank_account_id, Tail(data))
             ELSE ImportLoop(rows \cup {BankRow(seq + 1, bank_account_id,
                                                tx.external_id, tx.date[1],
                                                tx.description[1], tx.amount[1],
                                                "PKR")},
                             seq + 1, bank_account_id, Tail(data))

\* import_bank_transactions(bank_account_id, transactions_data)
ImportBankTransactions(bank_account_id, transactions_data) ==
    LET r == ImportLoop(bank_transactions, bank_seq, bank_account_id,
                        transactions_data)
    IN  /\ r.seq <= MaxBankRows
        /\ bank_transactions' = r.rows
        /\ bank_seq' = r.seq
        /\ last' = Outcome("import_bank_transactions", "ok",
                           [account |-> bank_account_id,
                            data |-> transactions_data,
                            before |-> bank_transactions])
        /\ UNCHANGED <<dbVars, cacheVars, backupVars, now, budgets, budget_seq,
                       procVars, lateVars>>

\* fractions <<numerator, denominator>> stand for the floats of the source
FracLess(x, y) == x[1] * y[2] < y[1] * x[2]
Abs(x) == IF x < 0 THEN -x ELSE x

\* the characters SequenceMatcher counts as matching: the longest common
\* block (earliest in a, then earliest in b), then the same to its left and
\* to its right
RECURSIVE MatchingChars(_, _, _, _, _, _)
MatchingChars(a, alo, ahi, b, blo, bhi) ==
    LET blocks == {x \in (alo..ahi) \X (blo..bhi) \X (1..Len(a)) :
                      /\ x[1] + x[3] - 1 <= ahi
                      /\ x[2] + x[3] - 1 <= bhi
                      /\ \A d \in 0..(x[3] - 1) : a[x[1] + d] = b[x[2] + d]}
    IN  IF blocks = {} THEN 0
        ELSE LET m == CHOOSE x \in blocks : \A y \in blocks :
                          \/ x[3] > y[3]
                          \/ x[3] = y[3] /\ x[1] < y[1]
                          \/ x[3] = y[3] /\ x[1] = y[1] /\ x[2] <= y[2]
             IN  m[3] + MatchingChars(a, alo, m[1] - 1, b, blo, m[2] - 1)
                      + MatchingChars(a, m[1] + m[3], ahi, b, m[2] + m[3], bhi)

\* difflib.SequenceMatcher(None, a, b).ratio(): 2 * matches / total length,
\* 1.0 for two empty strings
Similarity(a, b) ==
    IF Len(a) + Len(b) = 0 THEN <<1, 1>>
    ELSE <<2 * MatchingChars(a, 1, Len(a), b, 1, Len(b)), Len(a) + Len(b)>>

\* a set of rows as the list a SELECT without ORDER BY returns: by rowid
RECURSIVE ByRowId(_)
ByRowId(rows) ==
    IF rows = {} THEN <<>>
    ELSE LET r == CHOOSE r \in rows : \A q \in rows : r.id <= q.id
         IN  <<r>> \o ByRowId(rows \ {r})

\* sorted(matches, key=similarity, reverse=True): stable, so that equal
\* similarities keep their order
RECURSIVE SortedMatches(_)
SortedMatches(matches) ==
    IF matches = <<>> THEN <<>>
    ELSE LET n == Len(matches)
             i == CHOOSE i \in 1..n :
                     /\ \A j \in 1..n :
                           ~FracLess(matches[i].similarity, matches[j].similarity)
                     /\ \A j \in 1..(i - 1) :
                           FracLess(matches[j].similarity, matches[i].similarity)
         IN  <<matches[i]>> \o
             SortedMatches(SubSeq(matches, 1, i - 1) \o SubSeq(matches, i + 1, n))

\* the candidates of the SELECT and the loop that keeps those at or above
\* the threshold
MatchList(bank_tx) ==
    LET potential_matches ==
            ByRowId({t \in transactions :
                        t.date = bank_tx.date /\ Abs(t.amount - bank_tx.amount) < 1})
        scored == [i \in 1..Len(potential_matches) |->
                      [transaction |-> potential_matches[i],
                       similarity |-> Similarity(bank_tx.description,
                                                 potential_matches[i].description)]]
    IN  SortedMatches(SelectSeq(scored,
                          LAMBDA m : ~FracLess(m.similarity, match_threshold)))

\* bank_tx['date']: a sqlite3.Row can be indexed by column name; a tuple, or
\* the None that fetchone() returns for no row, raises TypeError
Subscriptable(row) == row # NULL /\ row_factory = "Row"

\* find_matches(bank_tx_id)
FindMatches(bank_tx_id) ==
    LET found   == {b \in bank_transactions : b.id = bank_tx_id}
        bank_tx == IF found = {} THEN NULL ELSE Some(CHOOSE b \in found : TRUE)
    IN  /\ last' = IF Subscriptable(bank_tx)
                   THEN Outcome("find_matches", "ok",
                                [id |-> bank_tx_id, matches |-> MatchList(bank_tx[1])])
                   ELSE Outcome("find_matches", "TypeError",
                                [id |-> bank_tx_id, matches |-> <<>>])
        /\ UNCHANGED <<dbVars, cacheVars, backupVars, now, moreVars, lateVars>>

----------------------------------------------------------------------------
(* Background jobs (caching.py) *)

\* start_workers(num_workers=3)
num_workers == 3
Workers == 1..num_workers

\* the names bound at module level in caching.py (its import block and its
\* top-level definitions); a name imported inside one function is local to it
ModuleGlobals ==
    {"hashlib", "json", "time", "os", "wraps", "datetime", "timedelta",
     "logging", "redis", "get_db_connection", "logger"}

\* the tuple add_job puts on the queue
Job(job_type, job_data, job_id) ==
    [type |-> job_type, data |-> job_data, id |-> job_id]

Idle     == [state |-> "idle", job |-> NULL]
Busy(j)  == [state |-> "busy", job |-> Some(j)]
Returned == [state |-> "returned", job |-> NULL]

\* uuid.uuid4(): an id no other job has
JobIds ==
    {job_queue[i].id : i \in 1..Len(job_queue)}
        \cup {workers[w].job[1].id : w \in {v \in Workers : workers[v].job # NULL}}
        \cup {e.id : e \in job_log}
NextJobId == Max(JobIds \cup {0}) + 1

\* add_job(job_type, job_data)
AddJob(job_type, job_data) ==
    /\ NextJobId <= MaxJobs
    /\ job_queue' = Append(job_queue, Job(job_type, job_data, NextJobId))
    /\ last' = Outcome("add_job", "ok", [id |-> NextJobId])
    /\ UNCHANGED <<dbVars, cacheVars, backupVars, now, ledgerVars,
                   workers, job_log, pool, held, waiting, set_log, lateVars>>

\* a worker that takes the head of the queue and leaves it there
WorkerGetLeavingJob(w) ==
    /\ workers[w] = Idle
    /\ job_queue # <<>>
    /\ workers' = [workers EXCEPT ![w] = Busy(Head(job_queue))]
    /\ UNCHANGED <<dbVars, cacheVars, backupVars, now, ledgerVars, job_queue,
                   job_log, pool, held, waiting, set_log, last, lateVars>>

\* worker: job = self.job_queue.get(timeout=1); an empty queue raises
\* queue.Empty and the loop continues
WorkerGet(w) ==
    /\ workers[w] = Idle
    /\ job_queue # <<>>
    /\ workers' = [workers EXCEPT ![w] = Busy(Head(job_queue))]
    /\ job_queue' = Tail(job_queue)
    /\ UNCHANGED <<dbVars, cacheVars, backupVars, now, ledgerVars,
                   job_log, pool, held, waiting, set_log, last, lateVars>>

\* the exception a job body raises for its job_data, NULL when it returns:
\* a missing key is a KeyError, an unbound global a NameError
BodyRaises(job) ==
    CASE job.type = "bank_sync" ->
            IF {"bank_account_id", "transactions_data"} \subseteq DOMAIN job.data
            THEN NULL ELSE Some("KeyError")
      [] job.type = "report_generation" ->
            IF "report_type" \in DOMAIN job.data THEN NULL ELSE Some("KeyError")
      [] job.type = "backup" ->
            IF "pd" \in ModuleGlobals THEN NULL ELSE Some("NameError")
      [] OTHER -> NULL

\* the dispatch of worker(): success is True only when a known body returned
KnownJobTypes ==
    {"ocr_processing", "bank_sync", "report_generation", "data_export", "backup"}
Success(job) == job.type \in KnownJobTypes /\ BodyRaises(job) = NULL

\* what the worker logs for the job: "completed successfully" or "failed"
LogLine(job) ==
    [id |-> job.id, type |-> job.type,
     status |-> IF Success(job) THEN "completed" ELSE "failed"]

\* the effect of a body that returned: bank_sync imports the rows, backup
\* leaves <backup_dir>/scheduled_backup_<stamp>.zip
BodyEffect(job) ==
    CASE Success(job) /\ job.type = "bank_sync" ->
            LET r == ImportLoop(bank_transactions, bank_seq,
                                job.data.bank_account_id,
                                job.data.transactions_data)
            IN  /\ r.seq <= MaxBankRows
                /\ bank_transactions' = r.rows
                /\ bank_seq' = r.seq
                /\ UNCHANGED backups
      [] Success(job) /\ job.type = "backup" ->
            /\ backups' = CopyInto(backups,
                              <<"scheduled_backup", StampOf(now + tz), "zip">>, DbFile)
            /\ UNCHANGED <<bank_transactions, bank_seq>>
      [] OTHER -> UNCHANGED <<bank_transactions, bank_seq, backups>>

\* a worker whose thread returns when a job fails
WorkerRunDying(w) ==
    /\ workers[w].state = "busy"
    /\ LET job == workers[w].job[1]
       IN  /\ BodyEffect(job)
           /\ job_log' = job_log \cup {LogLine(job)}
           /\ workers' = [workers EXCEPT
                             ![w] = IF Success(job) /\ is_running
                                    THEN Idle ELSE Returned]
    /\ UNCHANGED <<dbVars, cacheVars, sidecars, now, budgets, budget_seq,
                   job_queue, pool, held, waiting, set_log, last, lateVars>>

\* a worker that goes on polling whatever is_running says
WorkerRunIgnoringFlag(w) ==
    /\ workers[w].state = "busy"
    /\ LET job == workers[w].job[1]
       IN  /\ BodyEffect(job)
           /\ job_log' = job_log \cup {LogLine(job)}
           /\ workers' = [workers EXCEPT ![w] = Idle]
    /\ UNCHANGED <<dbVars, cacheVars, sidecars, now, budgets, budget_seq,
                   job_queue, pool, held, waiting, set_log, last, lateVars>>

\* worker: dispatch the job it took, log the outcome, task_done(), and go
\* back to the head of the loop whatever the outcome was; the loop is
\* entered again, into get(timeout=1), while is_running is set
WorkerRun(w) ==
    /\ workers[w].state = "busy"
    /\ LET job == workers[w].job[1]
       IN  /\ BodyEffect(job)
           /\ job_log' = job_log \cup {LogLine(job)}
           /\ workers' = [workers EXCEPT ![w] = IF is_running THEN Idle ELSE Returned]
    /\ UNCHANGED <<dbVars, cacheVars, sidecars, now, budgets, budget_seq,
                   job_queue, pool, held, waiting, set_log, last, lateVars>>

\* worker: get(timeout=1) found the queue empty for its whole timeout;
\* except queue.Empty: continue, and the loop ends when is_running is unset
WorkerPollTimeout(w) ==
    /\ workers[w] = Idle
    /\ job_queue = <<>>
    /\ workers' = [workers EXCEPT ![w] = IF is_running THEN Idle ELSE Returned]
    /\ UNCHANGED <<dbVars, cacheVars, backupVars, now, ledgerVars, job_queue,
                   job_log, pool, held, waiting, set_log, last, lateVars>>

\* is_running is assigned False; the class has no method doing it, the
\* attribute is set from outside
ClearRunning ==
    /\ is_running
    /\ is_running' = FALSE
    /\ last' = Outcome("is_running", "ok", [value |-> FALSE])
    /\ UNCHANGED <<dbVars, cacheVars, backupVars, now, moreVars, accountVars,
                   schemaVars, zips, lockVars>>

\* get_queue_size(): job_queue.qsize()
GetQueueSize ==
    /\ last' = Outcome("get_queue_size", "ok", [size |-> Len(job_queue)])
    /\ UNCHANGED <<dbVars, cacheVars, backupVars, now, moreVars, lateVars>>

----------------------------------------------------------------------------
(* Connection pool (database_pool.py) *)

\* DatabasePool(max_connections=10): the queue is filled at construction
max_connections == 10
Connections == 1..max_connections


\* conn = self.pool.get(): Queue.get hands out one queued connection; which
\* one is left open (the queue is first-in first-out, any order of returns
\* can arise), and with an empty queue the caller blocks
TakeConnection(c) ==
    /\ c \in pool
    /\ pool' = pool \ {c}
    /\ held' = [held EXCEPT ![c] = @ + 1]

\* a thread enters `with db_pool.get_connection() as conn`
GetConnection ==
    /\ IF pool # {}
       THEN /\ \E c \in pool :
                  /\ TakeConnection(c)
                  /\ last' = Outcome("get_connection", "ok", [conn |-> c])
            /\ UNCHANGED waiting
       ELSE /\ waiting < MaxWaiting
            /\ waiting' = waiting + 1
            /\ last' = Outcome("get_connection", "blocked", [conn |-> 0])
            /\ UNCHANGED <<pool, held>>
    /\ UNCHANGED <<dbVars, cacheVars, backupVars, now, ledgerVars,
                   job_queue, workers, job_log, set_log, lateVars>>

\* a thread blocked in pool.get() is handed a connection that was put back
BlockedGetReturns ==
    /\ waiting > 0
    /\ \E c \in pool :
          /\ TakeConnection(c)
          /\ last' = Outcome("get_connection", "ok", [conn |-> c])
    /\ waiting' = waiting - 1
    /\ UNCHANGED <<dbVars, cacheVars, backupVars, now, ledgerVars,
                   job_queue, workers, job_log, set_log, lateVars>>

\* the ways a with-block is left
ScopeExits == {"normal", "exception"}

\* a scope that puts its connection back only when the block ends normally
ScopeExitWithoutFinally(c, how) ==
    /\ held[c] > 0
    /\ held' = [held EXCEPT ![c] = @ - 1]
    /\ pool' = IF how = "normal" THEN pool \cup {c} ELSE pool
    /\ last' = Outcome("scope_exit", how, [conn |-> c])
    /\ UNCHANGED <<dbVars, cacheVars, backupVars, now, ledgerVars,
                   job_queue, workers, job_log, waiting, set_log, lateVars>>

\* the with-block of a holder of c ends, normally or by an exception:
\* finally: self.pool.put(conn)
ScopeExit(c, how) ==
    /\ held[c] > 0
    /\ held' = [held EXCEPT ![c] = @ - 1]
    /\ pool' = pool \cup {c}
    /\ last' = Outcome("scope_exit", how, [conn |-> c])
    /\ UNCHANGED <<dbVars, cacheVars, backupVars, now, ledgerVars,
                   job_queue, workers, job_log, waiting, set_log, lateVars>>

----------------------------------------------------------------------------
(* Budgets (database.py, calculations.py, app.py) *)

\* a row of budgets: category is NOT NULL UNIQUE, actual_spent defaults to 0
BudgetRow(id, category, monthly_budget, actual_spent) ==
    [id |-> id, category |-> category, monthly_budget |-> monthly_budget,
     actual_spent |-> actual_spent]

\* INSERT OR REPLACE INTO budgets ... COALESCE((SELECT actual_spent ...), 0):
\* a row of the same category is deleted and the new row, with a new id,
\* takes its actual_spent
UpsertedBudgets(rows, seq, category, monthly_budget) ==
    LET old == {b \in rows : b.category = category}
        kept == IF old = {} THEN 0 ELSE (CHOOSE b \in old : TRUE).actual_spent
    IN  (rows \ old) \cup
        {BudgetRow(NextRowId(rows, seq), category, monthly_budget, kept)}

\* an upsert that gives the new row the column default
AddBudgetResettingSpent(category, monthly_budget) ==
    /\ budget_seq < MaxBudgets
    /\ budgets' = {b \in budgets : b.category # category} \cup
                  {BudgetRow(NextRowId(budgets, budget_seq), category,
                             monthly_budget, 0)}
    /\ budget_seq' = NextRowId(budgets, budget_seq)
    /\ last' = Outcome("add_budget", "ok",
                       [category |-> category, monthly_budget |-> monthly_budget])
    /\ UNCHANGED <<dbVars, cacheVars, backupVars, now, bank_transactions,
                   bank_seq, procVars, lateVars>>

\* add_budget(category, monthly_budget)
AddBudget(category, monthly_budget) ==
    /\ budget_seq < MaxBudgets
    /\ budgets' = UpsertedBudgets(budgets, budget_seq, category, monthly_budget)
    /\ budget_seq' = NextRowId(budgets, budget_seq)
    /\ last' = Outcome("add_budget", "ok",
                       [category |-> category, monthly_budget |-> monthly_budget])
    /\ UNCHANGED <<dbVars, cacheVars, backupVars, now, bank_transactions,
                   bank_seq, procVars, lateVars>>

\* UPDATE budgets SET category, monthly_budget WHERE id: fails on the UNIQUE
\* constraint when another row has the category
UpdateConflicts(rows, id, category) ==
    /\ \E b \in rows : b.id = id
    /\ \E b \in rows : b.id # id /\ b.category = category
UpdatedBudgets(rows, id, category, monthly_budget) ==
    {IF b.id = id
     THEN [b EXCEPT !.category = category, !.monthly_budget = monthly_budget]
     ELSE b : b \in rows}

\* update_budget(budget_id, category, monthly_budget)
UpdateBudget(budget_id, category, monthly_budget) ==
    /\ IF UpdateConflicts(budgets, budget_id, category)
       THEN /\ UNCHANGED budgets
            /\ last' = Outcome("update_budget", "IntegrityError", [id |-> budget_id])
       ELSE /\ budgets' = UpdatedBudgets(budgets, budget_id, category, monthly_budget)
            /\ last' = Outcome("update_budget", "ok", [id |-> budget_id])
    /\ UNCHANGED <<dbVars, cacheVars, backupVars, now, bank_transactions,
                   bank_seq, budget_seq, procVars, lateVars>>

\* delete_budget(budget_id)
DeleteBudget(budget_id) ==
    /\ budgets' = {b \in budgets : b.id # budget_id}
    /\ last' = Outcome("delete_budget", "ok", [id |-> budget_id])
    /\ UNCHANGED <<dbVars, cacheVars, backupVars, now, bank_transactions,
                   bank_seq, budget_seq, procVars, lateVars>>

\* update_actual_spent(): each category's actual_spent becomes the sum of
\* its Expense and Salary transactions, 0 when there are none
UpdateActualSpent ==
    /\ budgets' =
          {[b EXCEPT !.actual_spent =
                OrZero(SqlSum({[id |-> t.id, value |-> t.amount] :
                                  t \in {u \in transactions :
                                            /\ u.category = b.category
                                            /\ u.type \in {"Expense", "Salary"}}}))]
           : b \in budgets}
    /\ last' = Outcome("update_actual_spent", "ok", <<>>)
    /\ UNCHANGED <<dbVars, cacheVars, backupVars, now, bank_transactions,
                   bank_seq, budget_seq, procVars, lateVars>>


\* a row of the budget grid as the save reads it: id is NaN (NULL) for a row
\* the user added in the editor
GridRow(id, category, monthly_budget) ==
    [id |-> id, category |-> category, monthly_budget |-> monthly_budget]

\* budgets_df[['id', 'category', 'monthly_budget']] of the last get_budgets()
RECURSIVE GridOf(_)
GridOf(rows) ==
    IF rows = <<>> THEN <<>>
    ELSE <<GridRow(Some(Head(rows).id), Head(rows).category,
                   Head(rows).monthly_budget)>> \o GridOf(Tail(rows))
BudgetGrid == GridOf(ByRowId(budgets))

\* the first loop of the save: add_budget for a row without id, update_budget
\* for every other row; an exception ends the save where it is raised
RECURSIVE SaveLoop(_, _, _, _, _)
SaveLoop(rows, seq, edited, inserts, updates) ==
    IF edited = <<>>
    THEN [rows |-> rows, seq |-> seq, inserts |-> inserts, updates |-> updates,
          error |-> NULL]
    ELSE LET row == Head(edited)
         IN  IF row.id = NULL
             THEN SaveLoop(UpsertedBudgets(rows, seq, row.category, row.monthly_budget),
                           NextRowId(rows, seq), Tail(edited), inserts + 1, updates)
             ELSE IF UpdateConflicts(rows, row.id[1], row.category)
             THEN [rows |-> rows, seq |-> seq, inserts |-> inserts,
                   updates |-> updates, error |-> Some("IntegrityError")]
             ELSE SaveLoop(UpdatedBudgets(rows, row.id[1], row.category,
                                          row.monthly_budget),
                           seq, Tail(edited), inserts, updates + 1)

\* the rows of the snapshot whose id is not in the edited grid
DeletedIds(snapshot, edited) ==
    {snapshot[i].id[1] : i \in 1..Len(snapshot)}
        \ {edited[i].id[1] : i \in {j \in 1..Len(edited) : edited[j].id # NULL}}

\* "Save Changes" pressed with an edited grid that differs from the snapshot
SaveBudgetGrid(edited) ==
    LET snapshot == BudgetGrid
        r == SaveLoop(budgets, budget_seq, edited, 0, 0)
        deleted == IF r.error = NULL THEN DeletedIds(snapshot, edited) ELSE {}
    IN  /\ edited # snapshot
        /\ r.seq <= MaxBudgets
        /\ budgets' = {b \in r.rows : b.id \notin deleted}
        /\ budget_seq' = r.seq
        /\ last' = Outcome("save_budget_grid",
                           IF r.error = NULL THEN "ok" ELSE r.error[1],
                           [snapshot |-> snapshot, edited |-> edited,
                            inserts |-> r.inserts, updates |-> r.updates,
                            deletes |-> Cardinality(deleted)])
        /\ UNCHANGED <<dbVars, cacheVars, backupVars, now, bank_transactions,
                       bank_seq, procVars, lateVars>>


\* float64 results: a fraction n/d, or what a division by zero gives
Num(n, d) == [kind |-> "num", n |-> n, d |-> d]
Inf(sign) == [kind |-> "inf", n |-> sign, d |-> 0]
NaN       == [kind |-> "nan", n |-> 0, d |-> 0]

\* x / y * 100 on float columns: no exception, x / 0 is inf or -inf and
\* 0 / 0 is NaN
PercentOf(x, y) ==
    IF y # 0 THEN Num(100 * x, y)
    ELSE IF x > 0 THEN Inf(1) ELSE IF x < 0 THEN Inf(-1) ELSE NaN

\* Series.fillna(0): NaN becomes 0, every other value stays
FillNa(v) == IF v.kind = "nan" THEN Num(0, 1) ELSE v

\* actual_spent > monthly_budget * 0.9; exact for whole amounts
ExceedsNinetyPercent(b) == 10 * b.actual_spent > 9 * b.monthly_budget

\* calculations.calculate_budget_variance(budgets_df): the frame with the
\* two computed columns
CalculateBudgetVariance(budgets_df) ==
    {[category |-> b.category, monthly_budget |-> b.monthly_budget,
      actual_spent |-> b.actual_spent,
      variance |-> b.actual_spent - b.monthly_budget,
      variance_percentage |->
          FillNa(PercentOf(b.actual_spent - b.monthly_budget, b.monthly_budget))]
     : b \in budgets_df}

\* calculations.check_budget_alerts(budgets_df) and
\* database.check_budget_alerts(): the categories selected
CheckBudgetAlerts(budgets_df) ==
    {b.category : b \in {r \in budgets_df : ExceedsNinetyPercent(r)}}

\* the budget page computes the variance of get_budgets()
ShowBudgetVariance ==
    /\ last' = Outcome("calculate_budget_variance", "ok",
                       CalculateBudgetVariance(budgets))
    /\ UNCHANGED <<dbVars, cacheVars, backupVars, now, moreVars, lateVars>>

\* the alert check, by either module
ShowBudgetAlerts(module) ==
    /\ last' = Outcome("check_budget_alerts", module, CheckBudgetAlerts(budgets))
    /\ UNCHANGED <<dbVars, cacheVars, backupVars, now, moreVars, lateVars>>

----------------------------------------------------------------------------
(* Users (user_management.py).  The table lives in finance.db.  A stored
   password is the salt followed by the SHA-256 of password + salt. *)

valid_roles == {"admin", "accountant", "viewer"}

\* hash_password(password) with the salt secrets.token_hex(16) produced
HashPassword(password, salt) ==
    [salt |-> salt, hash |-> Sha256(<<password, salt>>)]

\* verify_password(password, stored_hash)
VerifyPassword(password, stored_hash) ==
    Sha256(<<password, stored_hash.salt>>) = stored_hash.hash

\* a row of users as INSERT INTO users (username, email, password_hash, role)
\* leaves it: last_login NULL, is_active 1
UserRow(id, username, email, password_hash, role) ==
    [id |-> id, username |-> username, email |-> email,
     password_hash |-> password_hash, role |-> role,
     last_login |-> NULL, is_active |-> TRUE]

\* create_default_admin(): the row inserted into an empty users table
DefaultAdmin ==
    UserRow(1, "admin", "admin@algohub.com", HashPassword("Admin123!", "s0"), "admin")

\* SELECT id FROM users WHERE username = ? OR email = ?
UsersMatching(username, email) ==
    {u \in users : u.username = username \/ u.email = email}

\* create_user without the check of the role
CreateUserAnyRole(username, email, password, role, salt) ==
    /\ user_seq < MaxUsers
    /\ IF UsersMatching(username, email) # {}
       THEN /\ UNCHANGED accountVars
            /\ last' = Outcome("create_user", "ValueError",
                               [username |-> username, email |-> email, role |-> role])
       ELSE /\ users' = users \cup {UserRow(user_seq + 1, username, email,
                                           HashPassword(password, salt), role)}
            /\ user_seq' = user_seq + 1
            /\ last' = Outcome("create_user", "ok",
                               [username |-> username, email |-> email, role |-> role])
    /\ UNCHANGED <<dbVars, cacheVars, backupVars, now, moreVars, schemaVars,
                   zips, is_running, lockVars>>

\* create_user(username, email, password, role): ValueError when a row has
\* the username or the email, ValueError when the role is not valid,
\* otherwise the insert; returns the new id
CreateUser(username, email, password, role, salt) ==
    /\ user_seq < MaxUsers
    /\ IF UsersMatching(username, email) # {} \/ role \notin valid_roles
       THEN /\ UNCHANGED accountVars
            /\ last' = Outcome("create_user", "ValueError",
                               [username |-> username, email |-> email, role |-> role])
       ELSE /\ users' = users \cup {UserRow(user_seq + 1, username, email,
                                           HashPassword(password, salt), role)}
            /\ user_seq' = user_seq + 1
            /\ last' = Outcome("create_user", "ok",
                               [username |-> username, email |-> email, role |-> role])
    /\ UNCHANGED <<dbVars, cacheVars, backupVars, now, moreVars, schemaVars,
                   zips, is_running, lockVars>>

\* update_user_role(user_id, new_role): ValueError for a role that is not
\* valid or an id that matches no row
UpdateUserRole(user_id, new_role) ==
    /\ IF new_role \notin valid_roles \/ ~(\E u \in users : u.id = user_id)
       THEN /\ UNCHANGED users
            /\ last' = Outcome("update_user_role", "ValueError",
                               [id |-> user_id, role |-> new_role])
       ELSE /\ users' = {IF u.id = user_id THEN [u EXCEPT !.role = new_role] ELSE u
                           : u \in users}
            /\ last' = Outcome("update_user_role", "ok",
                               [id |-> user_id, role |-> new_role])
    /\ UNCHANGED <<dbVars, cacheVars, backupVars, now, moreVars, user_seq,
                   schemaVars, zips, is_running, lockVars>>

\* delete_user(user_id): ValueError for an id that matches no row
DeleteUser(user_id) ==
    /\ IF ~(\E u \in users : u.id = user_id)
       THEN /\ UNCHANGED users
            /\ last' = Outcome("delete_user", "ValueError", [id |-> user_id])
       ELSE /\ users' = {u \in users : u.id # user_id}
            /\ last' = Outcome("delete_user", "ok", [id |-> user_id])
    /\ UNCHANGED <<dbVars, cacheVars, backupVars, now, moreVars, user_seq,
                   schemaVars, zips, is_running, lockVars>>

\* what authenticate_user returns and the rows its query matched
AuthOutcome(identifier, result, matched) ==
    Outcome("authenticate_user", IF result = NULL THEN "none" ELSE "ok",
            [identifier |-> identifier, result |-> result, matched |-> matched])

\* authenticate_user(username, password): the query matches the identifier
\* against both columns and fetchone() takes one matching row, in no stated
\* order; an active row whose password verifies gets last_login set and is
\* returned as {id, username, role}; anything else returns None
AuthenticateUser(identifier, password) ==
    LET matching == UsersMatching(identifier, identifier)
        matched  == {u.id : u \in matching}
    IN  /\ IF matching = {}
           THEN /\ UNCHANGED users
                /\ last' = AuthOutcome(identifier, NULL, matched)
           ELSE \E user \in matching :
                  IF user.is_active /\ VerifyPassword(password, user.password_hash)
                  THEN /\ users' = {IF u.id = user.id
                                    THEN [u EXCEPT !.last_login = Some(now)]
                                    ELSE u : u \in users}
                       /\ last' = AuthOutcome(identifier,
                                     Some([id |-> user.id, username |-> user.username,
                                           role |-> user.role]), matched)
                  ELSE /\ UNCHANGED users
                       /\ last' = AuthOutcome(identifier, NULL, matched)
        /\ UNCHANGED <<dbVars, cacheVars, backupVars, now, moreVars, user_seq,
                       schemaVars, zips, is_running, lockVars>>

----------------------------------------------------------------------------
(* Threads calling database.py at the same time.  Every function takes
   _db_lock in a with block that holds sqlite3.connect and conn.cursor();
   its statements, commit and close come after the block.  Each thread has
   its own connection; SQLite lets one connection write at a time: the
   first INSERT of a connection opens its transaction and takes the write
   lock, which commit gives back, and a connection finding the lock taken
   retries for the timeout of its connect call before it gives up. *)

Threads == {1, 2}

\* the columns of loans in a database made before loan_direction existed
OldLoansColumns == {"id", "principal_amount"}

busy_timeout == 10    \* sqlite3.connect('finance.db', timeout=10), seconds

\* op: the function called; pc: how far it has got; data: its arguments;
\* since: when it began to wait for the write lock; missing: what its
\* PRAGMA table_info(loans) told about loan_direction
Session(op, pc, data, since, missing) ==
    [op |-> op, pc |-> pc, data |-> data, since |-> since, missing |-> missing]

NoCall == Session("none", "idle", <<>>, 0, FALSE)

\* the threads having an open connection
InFlight == {t \in Threads : sessions[t].pc # "idle"}

threadFrame == <<cacheVars, backupVars, moreVars, accountVars, zips, is_running>>

\* the call enters `with _db_lock:` and opens its connection and cursor
Begin(t, op, data) ==
    /\ sessions[t] = NoCall
    /\ db_lock = 0
    /\ db_lock' = t
    /\ sessions' = [sessions EXCEPT ![t] = Session(op, "locked", data, 0, FALSE)]
    /\ UNCHANGED <<dbVars, schemaVars, write_lock, alters, now, threadFrame, last>>

\* the with block ends: the lock is released, the connection stays open
EndOfWith(t) ==
    /\ sessions[t].pc = "locked"
    /\ db_lock' = 0
    /\ sessions' = [sessions EXCEPT ![t].pc = "opened"]
    /\ UNCHANGED <<dbVars, schemaVars, write_lock, alters, now, threadFrame, last>>

\* the call ends by an exception: its connection is dropped, its
\* transaction with it
Raise(t, error) ==
    /\ sessions' = [sessions EXCEPT ![t] = NoCall]
    /\ write_lock' = IF write_lock = t THEN 0 ELSE write_lock
    /\ last' = Outcome(sessions[t].op, error, [thread |-> t])

\* cursor.execute of the first INSERT (add_transaction: the row; init_db,
\* after CREATE TABLE IF NOT EXISTS currencies: INSERT OR IGNORE of PKR):
\* the write lock is taken, or the connection starts to wait for it
ExecuteInsert(t) ==
    /\ sessions[t].pc = "opened"
    /\ IF sessions[t].op = "add_transaction" /\ ~TypeCheck(sessions[t].data)
       THEN Raise(t, "IntegrityError")
       ELSE /\ sessions' = [sessions EXCEPT
                               ![t].pc = IF write_lock = 0 THEN "inserted" ELSE "waiting",
                               ![t].since = now]
            /\ write_lock' = IF write_lock = 0 THEN t ELSE write_lock
            /\ UNCHANGED last
    /\ UNCHANGED <<dbVars, schemaVars, db_lock, alters, now, threadFrame>>

\* the lock came free before the timeout ran out
WaitEnds(t) ==
    /\ sessions[t].pc = "waiting"
    /\ write_lock = 0
    /\ now - sessions[t].since < busy_timeout
    /\ write_lock' = t
    /\ sessions' = [sessions EXCEPT ![t].pc = "inserted"]
    /\ UNCHANGED <<dbVars, schemaVars, db_lock, alters, now, threadFrame, last>>

\* the timeout ran out: OperationalError('database is locked')
BusyTimeout(t) ==
    /\ sessions[t].pc = "waiting"
    /\ now - sessions[t].since >= busy_timeout
    /\ Raise(t, "OperationalError")
    /\ UNCHANGED <<dbVars, schemaVars, db_lock, alters, now, threadFrame>>

\* init_db: PRAGMA table_info(loans) and the list of its column names
PragmaTableInfo(t) ==
    /\ sessions[t].op = "init_db"
    /\ sessions[t].pc = "inserted"
    /\ sessions' = [sessions EXCEPT ![t].pc = "observed",
                                    ![t].missing = ("loan_direction" \notin loans_columns)]
    /\ UNCHANGED <<dbVars, schemaVars, db_lock, write_lock, alters, now,
                   threadFrame, last>>

\* init_db: if 'loan_direction' not in columns: ALTER TABLE loans ADD
\* COLUMN loan_direction; adding a column the table has is an error
AlterLoans(t) ==
    /\ sessions[t].op = "init_db"
    /\ sessions[t].pc = "observed"
    /\ IF sessions[t].missing /\ "loan_direction" \in loans_columns
       THEN Raise(t, "OperationalError")
       ELSE /\ sessions' = [sessions EXCEPT ![t].pc = "altered"]
            /\ UNCHANGED <<write_lock, last>>
    /\ UNCHANGED <<dbVars, schemaVars, db_lock, alters, now, threadFrame>>

\* conn.commit(): the transaction becomes the content of the file and the
\* write lock is given back
Commit(t) ==
    /\ \/ sessions[t].op = "add_transaction" /\ sessions[t].pc = "inserted"
       \/ sessions[t].op = "init_db" /\ sessions[t].pc = "altered"
    /\ IF sessions[t].op = "add_transaction"
       THEN /\ transactions' = InsertedRows(sessions[t].data, "PKR", NULL, NULL)
            /\ tx_seq' = NextRowId(transactions, tx_seq)
            /\ UNCHANGED <<schemaVars, alters>>
       ELSE /\ currencies' = currencies \cup {"PKR"}
            /\ loans_columns' = IF sessions[t].missing
                                THEN loans_columns \cup {"loan_direction"}
                                ELSE loans_columns
            /\ alters' = IF sessions[t].missing THEN alters + 1 ELSE alters
            /\ UNCHANGED <<transactions, tx_seq>>
    /\ write_lock' = 0
    /\ sessions' = [sessions EXCEPT ![t].pc = "committed"]
    /\ UNCHANGED <<audit_logs, company_investments, inv_seq, loans, loan_seq,
                   db_lock, now, threadFrame, last>>

\* conn.close() and the return
Close(t) ==
    /\ sessions[t].pc = "committed"
    /\ sessions' = [sessions EXCEPT ![t] = NoCall]
    /\ last' = Outcome(sessions[t].op, "ok", [thread |-> t])
    /\ UNCHANGED <<dbVars, schemaVars, db_lock, write_lock, alters, now, threadFrame>>

----------------------------------------------------------------------------
(* Approval workflow (application/approval_workflow_service.py).  The
   service keeps no state; it reads the transactions table through the
   repository.  A Transaction object is what the caller built: its id may be
   None or the id of no stored row. *)

\* float('inf'): no amount is greater
NoLimit == <<>>

approval_thresholds ==
    [admin |-> NoLimit, finance_manager |-> Some(100000),
     accountant |-> Some(50000), employee |-> Some(10000)]

\* approval_thresholds.get(user_role, 0)
ThresholdOf(user_role) ==
    IF user_role \in DOMAIN approval_thresholds
    THEN approval_thresholds[user_role] ELSE Some(0)

\* requires_approval with >= in the place of >
RequiresApprovalFromThreshold(transaction, user_role) ==
    LET threshold == ThresholdOf(user_role)
    IN  threshold # NoLimit /\ transaction.amount >= threshold[1]

\* requires_approval(transaction, user_role): amount > threshold
RequiresApproval(transaction, user_role) ==
    LET threshold == ThresholdOf(user_role)
    IN  threshold # NoLimit /\ transaction.amount > threshold[1]

\* the names approval_workflow_service.py imports from application.exceptions
ImportedExceptions == {"ValidationError", "AccessDenied", "BusinessRuleViolation"}

\* raise <name>(...): a name the module does not bind raises NameError
Raised(name) == IF name \in ImportedExceptions THEN name ELSE "NameError"

\* TransactionRepository.get_by_id(transaction_id): the row, or None
GetById(transaction_id) ==
    IF transaction_id # NULL /\ transaction_id[1] \in RowIds
    THEN Some(RowById(transaction_id[1])) ELSE NULL

\* the dictionary create_approval_request builds
ApprovalRequest(transaction_id, requestor_id, approver_ids) ==
    [id |-> <<"approval", transaction_id, requestor_id, now>>,
     transaction_id |-> transaction_id, requestor_id |-> requestor_id,
     approver_ids |-> approver_ids, status |-> "pending"]

\* what create_approval_request does: the exception it raises, or "ok"
CreateOutcome(transaction_id) ==
    IF GetById(transaction_id) = NULL THEN Raised("ResourceNotFound") ELSE "ok"

\* _determine_approvers(transaction, requestor_role)
DetermineApprovers(transaction, requestor_role) ==
    IF transaction.amount > 500000 THEN <<1, 2>>
    ELSE IF transaction.amount > 100000 THEN <<3>>
    ELSE <<4>>

serviceFrame == <<dbVars, cacheVars, backupVars, now, moreVars, lateVars>>

\* a call of requires_approval
CheckRequiresApproval(transaction, user_role) ==
    /\ last' = Outcome("requires_approval", "ok",
                       [transaction |-> transaction, role |-> user_role,
                        result |-> RequiresApproval(transaction, user_role)])
    /\ UNCHANGED serviceFrame

\* create_approval_request(transaction_id, requestor_id, approver_ids)
CreateApprovalRequest(transaction_id, requestor_id, approver_ids) ==
    /\ last' = Outcome("create_approval_request", CreateOutcome(transaction_id),
                       [transaction_id |-> transaction_id,
                        request |-> IF CreateOutcome(transaction_id) = "ok"
                                    THEN Some(ApprovalRequest(transaction_id,
                                                 requestor_id, approver_ids))
                                    ELSE NULL])
    /\ UNCHANGED serviceFrame

\* what submit_for_approval hands back, or the exception that ended it
SubmitOutcome(outcome, transaction, user_role, status, request) ==
    Outcome("submit_for_approval", outcome,
            [transaction |-> transaction, role |-> user_role,
             status |-> status, request |-> request])

\* submit_for_approval(transaction, user_id, user_role)
SubmitForApproval(transaction, user_id, user_role) ==
    /\ last' =
         IF ~RequiresApproval(transaction, user_role)
         THEN SubmitOutcome("ok", transaction, user_role, "processed", NULL)
         ELSE IF CreateOutcome(transaction.id) # "ok"
         THEN SubmitOutcome(CreateOutcome(transaction.id), transaction, user_role,
                            "none", NULL)
         ELSE SubmitOutcome("ok", transaction, user_role, "pending_approval",
                  Some(ApprovalRequest(transaction.id, user_id,
                          DetermineApprovers(transaction, user_role))))
    /\ UNCHANGED serviceFrame

----------------------------------------------------------------------------
(* Client portal (application/client_portal_service.py) and the repository
   query it reads with (infrastructure/repositories.py) *)

\* the dates of the model, oldest first: ISO dates sort as text
Dates == <<"2023-01-01", "2023-02-01">>
DateIndex(date) == CHOOSE i \in DOMAIN Dates : Dates[i] = date

\* the rows in the orders ORDER BY date DESC allows: rows of one date come
\* in no stated order
ByDateDesc ==
    {s \in [1..Cardinality(transactions) -> transactions] :
        /\ \A i, j \in DOMAIN s : i # j => s[i] # s[j]
        /\ \A i, j \in DOMAIN s :
              i < j => DateIndex(s[i].date) >= DateIndex(s[j].date)}

\* LIMIT page_size OFFSET (page - 1) * page_size
PageOf(s, page, page_size) ==
    LET offset == (page - 1) * page_size
        stop   == IF Len(s) < offset + page_size THEN Len(s) ELSE offset + page_size
    IN  SubSeq(s, offset + 1, stop)

\* get_client_permissions(user_id, user_role)
ClientPermissions(user_role) ==
    [view_transactions |-> user_role \in {"client", "admin", "accountant"},
     add_comments      |-> user_role \in {"client", "admin", "accountant"},
     view_reports      |-> user_role \in {"client", "admin", "accountant"},
     download_reports  |-> user_role \in {"admin", "accountant"},
     edit_profile      |-> user_role \in {"client", "admin", "accountant"}]

\* a call of get_client_permissions
GetClientPermissions(user_id, user_role) ==
    /\ last' = Outcome("get_client_permissions", "ok",
                       [role |-> user_role, permissions |-> ClientPermissions(user_role)])
    /\ UNCHANGED serviceFrame

\* get_client_accessible_transactions that asks for no role
GetTransactionsOfAnyRole(client_id, user_role) ==
    /\ \E s \in ByDateDesc :
          last' = Outcome("get_client_accessible_transactions", "ok",
                          [role |-> user_role, transactions |-> PageOf(s, 1, 1000)])
    /\ UNCHANGED serviceFrame

\* get_client_accessible_transactions(client_id, user_role): AccessDenied
\* for a role outside client, admin, accountant; otherwise
\* get_all(page=1, page_size=1000)
GetClientAccessibleTransactions(client_id, user_role) ==
    /\ IF user_role \notin {"client", "admin", "accountant"}
       THEN last' = Outcome("get_client_accessible_transactions", "AccessDenied",
                            [role |-> user_role, transactions |-> <<>>])
       ELSE \E s \in ByDateDesc :
              last' = Outcome("get_client_accessible_transactions", "ok",
                              [role |-> user_role, transactions |-> PageOf(s, 1, 1000)])
    /\ UNCHANGED serviceFrame

----------------------------------------------------------------------------
(* Scheduled backups (scheduled_backup.py) and the compressed backup they
   take (backup_restore.py).  The raw copy a compressed backup works on is
   temp_<name>.db and is removed once the zip is written, so the files
   named automated_backup_* in the backup directory are zips. *)

days_to_keep   == 7        \* cleanup_old_backups(days_to_keep=7)
SecondsPerDay  == 86400    \* timedelta(days=1)

ZipNames == {z.name : z \in zips}

\* zipfile.ZipFile(<name>.zip, 'w'): creates or replaces the file
ZipInto(dir, name) ==
    {z \in dir : z.name # name} \cup {[name |-> name, mtime |-> now]}

\* filename.startswith("automated_backup_")
IsAutomated(name) == name[1] = "automated_backup"

\* the files cleanup_old_backups removes from a directory: an automated
\* backup whose local modification time is before now - days_to_keep
Expired(dir) ==
    {z \in dir : /\ IsAutomated(z.name)
                 /\ z.mtime + tz < (now + tz) - days_to_keep * SecondsPerDay}

\* create_compressed_backup(backup_name); copied: shutil.copy2 of the
\* database file went through, otherwise its exception is raised again
CreateCompressedBackup(backup_name, copied) ==
    LET name == IF backup_name = <<>>
                THEN <<"compressed_backup", StampOf(now + tz)>> ELSE backup_name
    IN  /\ name \notin ZipNames => Cardinality(zips) < MaxZips
        /\ IF copied
           THEN /\ zips' = ZipInto(zips, name)
                /\ last' = Outcome("create_compressed_backup", "ok", [name |-> name])
           ELSE /\ UNCHANGED zips
                /\ last' = Outcome("create_compressed_backup", "OSError", [name |-> name])
        /\ UNCHANGED <<dbVars, cacheVars, backupVars, now, moreVars, accountVars,
                       schemaVars, is_running, lockVars>>

\* cleanup_old_backups(days_to_keep=7)
CleanupOldBackups ==
    /\ zips' = zips \ Expired(zips)
    /\ last' = Outcome("cleanup_old_backups", "ok", [removed |-> Expired(zips)])
    /\ UNCHANGED <<dbVars, cacheVars, backupVars, now, moreVars, accountVars,
                   schemaVars, is_running, lockVars>>

\* perform_backup(): the snapshot and then the pruning inside one try; an
\* exception of the snapshot goes to the except clause, which logs it
PerformBackup(copied) ==
    LET name  == <<"automated_backup", StampOf(now + tz)>>
        taken == ZipInto(zips, name)
    IN  /\ (copied /\ name \notin ZipNames) => Cardinality(zips) < MaxZips
        /\ IF copied
           THEN /\ zips' = taken \ Expired(taken)
                /\ last' = Outcome("perform_backup", "ok", [name |-> name])
           ELSE /\ UNCHANGED zips
                /\ last' = Outcome("perform_backup", "error logged", [name |-> name])
        /\ UNCHANGED <<dbVars, cacheVars, backupVars, now, moreVars, accountVars,
                       schemaVars, is_running, lockVars>>

\* the scheduler sleeps until the next run
DaysPass(days) ==
    /\ now + days * SecondsPerDay <= MaxDays * SecondsPerDay
    /\ now' = now + days * SecondsPerDay
    /\ last' = Outcome("sleep", "ok", [days |-> days])
    /\ UNCHANGED <<dbVars, cacheVars, backupVars, moreVars, lateVars>>

----------------------------------------------------------------------------
(* Initial state: a freshly initialised database, an empty cache and backup
   directory; the cache backend and the host's time zone are fixed at start *)

TZOffsets == {0, 18000}

\* the state once the application has started on a database file whose
\* loans table has the given columns and whose currencies table the given codes
Started(columns, codes) ==
    /\ transactions = {}
    /\ tx_seq = 0
    /\ audit_logs = <<>>
    /\ company_investments = {}
    /\ inv_seq = 0
    /\ loans = {}
    /\ loan_seq = 0
    /\ cache = {}
    /\ redis_client \in BOOLEAN
    /\ tz \in TZOffsets
    /\ calls = {}
    /\ backups = {}
    /\ sidecars = {}
    /\ now = 0
    /\ bank_transactions = {}
    /\ bank_seq = 0
    /\ budgets = {}
    /\ budget_seq = 0
    /\ job_queue = <<>>
    /\ workers = [w \in Workers |-> Idle]
    /\ job_log = {}
    /\ pool = Connections
    /\ held = [c \in Connections |-> 0]
    /\ waiting = 0
    /\ set_log = {}
    /\ users = {DefaultAdmin}
    /\ user_seq = 1
    /\ loans_columns = columns
    /\ currencies = codes
    /\ zips = {}
    /\ is_running = TRUE
    /\ db_lock = 0
    /\ write_lock = 0
    /\ sessions = [t \in Threads |-> NoCall]
    /\ alters = 0
    /\ last = Outcome("init", "ok", <<>>)

\* init_db() has run: loans has loan_direction, currencies has PKR
Init == Started(OldLoansColumns \cup {"loan_direction"}, {"PKR"})

----------------------------------------------------------------------------
(* Inputs *)

Date1        == "2023-01-01"
ValidTx      == Tx(Date1, "Rent", "Sales", 100, "Income")
NegativeTx   == Tx(Date1, "Rent", "Sales", -5, "Expense")
ZeroBlankTx  == Tx(Date1, " ", "", 0, "Income")
BogusTypeTx  == Tx(Date1, "Rent", "Sales", 100, "Bogus")
TxInputs     == {ValidTx, NegativeTx, ZeroBlankTx, BogusTypeTx}
Ids          == 1..(MaxId + 1)
Currencies   == {"PKR", "USD"}
FeedRates    == {280}
Micros       == {0, 250000}
NoCredentialsStatuses == {401, 403}

----------------------------------------------------------------------------
(* Specification of the entry paths into table transactions *)

InitEntry == Init /\ redis_client /\ tz = 0

NextEntry ==
    \/ \E tx \in TxInputs : DbAddTransaction(tx)
    \/ \E id \in Ids, tx \in TxInputs : DbUpdateTransaction(id, tx)
    \/ \E id \in Ids : DbDeleteTransaction(id)
    \/ \E tx \in TxInputs : UiManualEntry(tx)
    \/ \E t \in QuickAddTemplates, n \in {"", "Acme"}, a \in {0, 100} :
          UiQuickAdd(t, Date1, n, a)
    \/ \E id \in Ids, tx \in TxInputs : UiEditForm(id, tx)
    \/ \E tx \in TxInputs, c \in Currencies, r \in FeedRates :
          AddTransactionWithCurrency(tx, c, r)
    \/ \E tk \in TokenKinds, st \in NoCredentialsStatuses,
          tx \in TxInputs, c \in Currencies, r \in FeedRates :
          ApiCreateTransaction(tk, st, Some(1), tx, c, r, 0)
    \/ \E tx \in TxInputs : SvcCreateTransaction(Entity(NULL, tx))
    \/ \E id \in Ids, tx \in TxInputs : SvcUpdateTransaction(Entity(Some(id), tx))

SpecEntry == InitEntry /\ [][NextEntry]_vars

----------------------------------------------------------------------------
(* Specification of the transaction service with the report cache *)

\* one valid transaction, each rule violated alone, and several at once
SvcValidTx      == Tx(Date1, "Rent", "Sales", 100, "Salary")
SvcTxInputs     == {SvcValidTx,
                    Tx(Date1, "", "Sales", 100, "Salary"),
                    Tx(Date1, " ", "Sales", 100, "Salary"),
                    Tx(Date1, "Rent", "", 100, "Salary"),
                    Tx(Date1, "Rent", "Sales", 0, "Salary"),
                    Tx(Date1, "Rent", "Sales", -5, "Income"),
                    Tx(Date1, "Rent", "Sales", 100, "Bogus"),
                    Tx(Date1, " ", "Sales", 0, "Income"),
                    Tx(Date1, "Rent", "", 100, "Bogus"),
                    Tx(Date1, "", "", -5, "Bogus")}
EntityIds       == {NULL, Some(0), Some(1), Some(MaxId + 1)}
Entities        == {Entity(id, tx) : id \in EntityIds, tx \in SvcTxInputs}
NewEntities     == {Entity(NULL, tx) : tx \in SvcTxInputs}

InitService == Init /\ tz = 0

NextService ==
    \/ \E e \in NewEntities : SvcCreateTransaction(e)
    \/ \E e \in Entities : SvcUpdateTransaction(e)
    \/ \E id \in Ids : SvcDeleteTransaction(id)
    \/ \E f \in {"cash_flow_forecasting", "create_visual_report"} :
          CachedCall("report_", f, 6, 900, 0)

SpecService == InitService /\ [][NextService]_vars

----------------------------------------------------------------------------
(* The cache under wrapped calls, passing time and changing data *)

CallArgs == {2}

\* test_function is wrapped by cache_report_data(ttl=300) in the test suite,
\* and here also by cache_manager.cache_function() with no ttl; the report
\* methods are wrapped by cache_report_data(ttl=900)
NextCache ==
    \/ \E x \in CallArgs, m \in Micros :
          CachedCall("report_", "test_function", x, 300, m)
    \/ \E x \in CallArgs : CachedCall("", "test_function", x, 0, 0)
    \/ CachedCall("report_", "create_visual_report", 6, 900, 0)
    \/ \E dt \in TickSteps : Tick(dt)
    \/ DbAddTransaction(ValidTx)

SpecCache == Init /\ [][NextCache]_vars

----------------------------------------------------------------------------
(* Audited writes, backups, restores and wipes *)

NamedBackups == {<<"nightly">>}

NextBackup ==
    \/ ApiCreateTransaction("valid", 401, Some(1), ValidTx, "PKR", 280, 0)
    \/ AuditedUpdateTransaction(1, NegativeTx, 0)
    \/ DbDeleteTransaction(1)
    \/ \E n \in NamedBackups : CreateBackup(n)
    \/ \E n \in NamedBackups : RestoreBackup(n)
    \/ \E n \in NamedBackups : DeleteBackup(n)
    \/ ClearDatabase
    \/ ResetDatabase

InitBackup == Init /\ redis_client /\ tz = 0

SpecBackup == InitBackup /\ [][NextBackup]_vars

----------------------------------------------------------------------------
(* The audit trail: direct log_action calls, audited updates and API creates,
   at different times of day and in different time zones *)

LoggedValues == {PyNone, PyDict(<<"amount", "100">>)}

NextAudit ==
    \/ \E old \in LoggedValues, new \in LoggedValues, u \in {NULL, Some(1)}, m \in Micros :
          LogAction("transaction", 1, "DELETE", old, new, u, m)
    \/ \E id \in {1, 2}, m \in Micros : AuditedUpdateTransaction(id, NegativeTx, m)
    \/ ApiCreateTransaction("valid", 401, Some(1), ValidTx, "USD", 280, 0)
    \/ Tick(300)

InitAudit == Init /\ redis_client

SpecAudit == InitAudit /\ [][NextAudit]_vars

----------------------------------------------------------------------------
(* The financial summary over changing tables *)

SummaryTxInputs ==
    {Tx(Date1, "Invoice", "Sales", 100, "Income"),
     Tx(Date1, "Rent", "Office", 30, "Expense"),
     Tx(Date1, "Payroll", "Staff", 20, "Salary")}

NextSummary ==
    \/ \E tx \in SummaryTxInputs : DbAddTransaction(tx)
    \/ \E id \in Ids : DbDeleteTransaction(id)
    \/ AddInvestment(50)
    \/ \E id \in Ids : DeleteInvestment(id)
    \/ \E d \in LoanDirections : AddLoan(200, d)
    \/ \E id \in Ids : DeleteLoan(id)
    \/ GetFinancialSummary

InitSummary == Init /\ redis_client /\ tz = 0

SpecSummary == InitSummary /\ [][NextSummary]_vars

----------------------------------------------------------------------------
(* Claims about the entry paths (SpecEntry) *)

\* C1: every stored transaction has one of the five types and amount > 0,
\* whatever sequence of entry paths produced the table.
C1_StoredTransactionsValid ==
    \A r \in transactions : r.type \in AllowedTypes /\ r.amount > 0

\* C10: a POST /transactions whose bearer token is missing, malformed or
\* wrongly signed is answered 401 and writes no transaction and no audit row.
C10_InvalidTokenIs401 ==
    [][(last'.op = "api_create_transaction" /\ last'.detail.token # "valid")
        => /\ last'.detail.status = 401
           /\ transactions' = transactions
           /\ audit_logs' = audit_logs]_vars

----------------------------------------------------------------------------
(* Claims about the transaction service (SpecService) *)

\* the rules a transaction violates, by the message of each
ViolatedRules(tx) ==
    {m \in {"Description is required", "Category is required",
            "Amount must be greater than 0", "Invalid transaction type"} :
        \/ m = "Description is required" /\ Blank(tx.description)
        \/ m = "Category is required" /\ Blank(tx.category)
        \/ m = "Amount must be greater than 0" /\ tx.amount <= 0
        \/ m = "Invalid transaction type" /\ tx.type \notin AllowedTypes}

Named(errors) == {errors[i] : i \in 1..Len(errors)}

RejectedServiceCall(l) ==
    /\ l.op \in {"svc_create", "svc_update"}
    /\ ViolatedRules(l.detail.entity.tx) # {}

\* C2 (as stated): create_transaction or update_transaction of a transaction
\* that violates a rule raises one ValidationError naming every violated
\* rule, and leaves the repository and the cache untouched.
C2_RejectionNamesEveryRule ==
    [][RejectedServiceCall(last')
        => /\ last'.outcome = "ValidationError"
           /\ ViolatedRules(last'.detail.entity.tx) \subseteq Named(last'.detail.errors)
           /\ ~last'.detail.invalidated
           /\ transactions' = transactions /\ tx_seq' = tx_seq
           /\ cache' = cache]_vars

\* C2 (amended): the same, except that update_transaction of a transaction
\* without an id raises a ValidationError naming only the missing id.
C2_RejectionNamesEveryRuleGivenId ==
    [][RejectedServiceCall(last')
        => /\ last'.outcome = "ValidationError"
           /\ IF last'.op = "svc_update" /\ NoId(last'.detail.entity)
              THEN last'.detail.errors = <<"Transaction ID is required for update">>
              ELSE Named(last'.detail.errors) = ViolatedRules(last'.detail.entity.tx)
           /\ ~last'.detail.invalidated
           /\ transactions' = transactions /\ tx_seq' = tx_seq
           /\ cache' = cache]_vars

\* C2 witness: a call violating all four rules was rejected while the
\* repository and the cache held something to preserve
C2_Witness ==
    /\ last.op = "svc_update"
    /\ last.outcome = "ValidationError"
    /\ Len(last.detail.errors) = 4
    /\ transactions # {}
    /\ cache # {}

\* a service mutation that succeeded: a create that returned an id, an update
\* or delete that returned True
ServiceMutationSucceeded ==
    /\ last.op \in {"svc_create", "svc_update", "svc_delete"}
    /\ last.outcome = "ok"
    /\ last.detail.invalidated

\* C3: after a successful create, update or delete through the service, no
\* entry under the report_, financial_summary_ or dashboard_kpis_ prefixes
\* that was stored before is still returned by the cache.
C3_NoStaleReportEntry ==
    ServiceMutationSucceeded =>
        \A e \in cache : e.key.prefix \in TransactionPrefixes => ~Live(e)

----------------------------------------------------------------------------
(* Claims about the cache (SpecCache) *)

\* C4: a call of a wrapped function made within the TTL window after an
\* execution with the same arguments returns that execution's result and does
\* not execute the function again, whatever the result was.
C4_RepeatedCallWithinTtlIsServed ==
    [][\A c \in calls :
        (/\ last'.op = "cached_call"
         /\ last'.detail.key = c.key
         /\ now < c.at + c.ttl)
        => /\ last'.outcome = "hit"
           /\ last'.detail.result = c.result
           /\ calls' = calls]_vars

----------------------------------------------------------------------------
(* Claims about backup, restore and the audit log (SpecBackup, SpecAudit) *)

RestoreDone(l)   == l.op = "restore_backup" /\ l.outcome = "ok"
RestoreFailed(l) == l.op = "restore_backup" /\ l.outcome = "FileNotFoundError"

C6_RestoreOfAbsentBackupChangesNothing ==
    [][(last'.op = "restore_backup" /\ last'.detail.name \notin BackupNames)
        => /\ last'.outcome = "FileNotFoundError"
           /\ DbFile' = DbFile
           /\ backups' = backups
           /\ sidecars' = sidecars]_vars

\* C6 witness: a restore of an absent name failed while the database and
\* the backup directory were not empty
C6_Witness ==
    /\ RestoreFailed(last)
    /\ transactions # {}
    /\ audit_logs # <<>>
    /\ backups # {}

IsPrefix(s, t) == Len(s) <= Len(t) /\ SubSeq(t, 1, Len(s)) = s

ColumnText(col) == IF col = NULL THEN <<"None">> ELSE col[1]

\* the concatenation of the columns a row stores
StoredConcat(r) ==
    <<r.entity_type, ToString(r.entity_id), r.action>> \o
    ColumnText(r.old_values) \o ColumnText(r.new_values) \o
    OptStr(r.user_id) \o r.timestamp

\* C8: the hash_value of every audit row is non-empty and is the SHA-256 of
\* the concatenation of the row's stored entity_type, entity_id, action,
\* old_values, new_values, user_id and timestamp.
C8_HashRecomputableFromRow ==
    \A i \in 1..Len(audit_logs) :
        /\ audit_logs[i].hash_value # <<>>
        /\ audit_logs[i].hash_value = Sha256(StoredConcat(audit_logs[i]))

----------------------------------------------------------------------------
(* Claims about the financial summary (SpecSummary) *)

\* income + company investments + inbound loan principal - expenses and
\* salaries, every empty sum counting as 0
ExpectedBalance ==
    Total(AmountsOfType({"Income"})) + Total(InvestmentAmounts)
    + Total(InboundPrincipals) - Total(AmountsOfType({"Expense", "Salary"}))

\* C9: in every database state get_financial_summary returns cash_balance
\* equal to net_profit, both being income + investments + inbound loans -
\* expenses and salaries.
C9_CashBalanceEqualsNetProfit ==
    last.op = "get_financial_summary" =>
        /\ last.detail.cash_balance = last.detail.net_profit
        /\ last.detail.net_profit = ExpectedBalance

----------------------------------------------------------------------------
(* Specification SpecBank: bank statements are imported, internal
   transactions entered, and matches looked up *)

Chars(w) ==
    CASE w = "rent"  -> <<"r", "e", "n", "t">>
      [] w = "rents" -> <<"r", "e", "n", "t", "s">>
      [] w = "tax"   -> <<"t", "a", "x">>

BankAccounts == {1}
BankTxInputs ==
    {BankTx(Some("E1"), Some(Date1), Some(Chars("rent")), Some(100)),
     BankTx(Some("E2"), Some(Date1), Some(Chars("tax")), Some(50)),
     BankTx(Some("E3"), NULL, Some(Chars("rent")), Some(100))}
BankData ==
    {<<t>> : t \in BankTxInputs} \cup {<<t, u>> : t, u \in BankTxInputs}
LedgerTxInputs ==
    {Tx(Date1, Chars(w), "Sales", 100, "Income") : w \in {"rent", "rents", "tax"}}
BankIds == 1..3

NextBank ==
    \/ \E a \in BankAccounts, d \in BankData : ImportBankTransactions(a, d)
    \/ \E tx \in LedgerTxInputs : DbAddTransaction(tx)
    \/ \E id \in BankIds : FindMatches(id)

InitBank == Init /\ redis_client /\ tz = 0
SpecBank == InitBank /\ [][NextBank]_vars

\* C11: after any sequence of imports, bank_transactions holds at most one
\* row per external transaction id of an account (a re-import of a stored
\* external id adds no row)
C11_OneRowPerExternalId ==
    \A a, b \in bank_transactions :
        (/\ a.external_transaction_id # NULL
         /\ a.external_transaction_id = b.external_transaction_id
         /\ a.bank_account_id = b.bank_account_id) => a = b

\* C12: find_matches(b.id) of a stored bank transaction b returns exactly the
\* internal transactions with b's date, an amount within 1.0 of b's and a
\* description similarity of at least 0.8, each paired with its similarity,
\* in descending order of similarity
IsMatchListOf(b, matches) ==
    LET wanted == {t \in transactions :
                      /\ t.date = b.date
                      /\ Abs(t.amount - b.amount) < 1
                      /\ ~FracLess(Similarity(b.description, t.description), <<4, 5>>)}
        n == Len(matches)
    IN  /\ {matches[i].transaction : i \in 1..n} = wanted
        /\ n = Cardinality(wanted)
        /\ \A i \in 1..n :
              matches[i].similarity =
                  Similarity(b.description, matches[i].transaction.description)
        /\ \A i, j \in 1..n :
              i < j => ~FracLess(matches[i].similarity, matches[j].similarity)

C12_FindMatchesReturnsTheMatches ==
    \A b \in bank_transactions :
        (last.op = "find_matches" /\ last.detail.id = b.id)
            => (last.outcome = "ok" /\ IsMatchListOf(b, last.detail.matches))

----------------------------------------------------------------------------
(* Specification SpecJobs: jobs are added while the three worker threads
   take and run them; a thread blocked in get() runs when a job is there *)

SyncData == [bank_account_id |-> 1,
             transactions_data |->
                 <<BankTx(Some("E1"), Some(Date1), Some(Chars("rent")), Some(100))>>]
TestData == [test |-> "data"]
JobInputs ==
    {<<"bank_sync", SyncData>>, <<"bank_sync", TestData>>,
     <<"backup", TestData>>, <<"test_job", TestData>>}

NextJobs ==
    \/ \E j \in JobInputs : AddJob(j[1], j[2])
    \/ \E w \in Workers : WorkerGet(w)
    \/ \E w \in Workers : WorkerRun(w)

InitJobs == Init /\ redis_client /\ tz = 0
SpecJobs ==
    /\ InitJobs
    /\ [][NextJobs]_vars
    /\ \A w \in Workers : WF_vars(WorkerGet(w)) /\ WF_vars(WorkerRun(w))

\* C13: a job whose body raises or whose type is unknown is logged as failed
\* and the worker that ran it goes back to waiting for jobs; the three
\* workers stay alive; and every job in the queue is eventually taken, run
\* and logged, whatever happened to the jobs before it
LiveWorkers == {w \in Workers : workers[w].state # "returned"}
Fails(job) == job.type \notin KnownJobTypes \/ BodyRaises(job) # NULL
Queued(id) == \E i \in 1..Len(job_queue) : job_queue[i].id = id
Logged(id) == \E e \in job_log : e.id = id
FailedJobIsLoggedAndWorkerGoesOn ==
    \A w \in Workers :
        IF workers[w].state = "busy" /\ workers'[w] # workers[w]
        THEN LET job == workers[w].job[1]
             IN  /\ workers'[w] = Idle
                 /\ \E e \in job_log' : e.id = job.id
                 /\ Fails(job) => [id |-> job.id, type |-> job.type,
                                   status |-> "failed"] \in job_log'
        ELSE TRUE
C13_FailedJobDoesNotStopWorkers ==
    /\ [](Cardinality(LiveWorkers) = 3)
    /\ [][FailedJobIsLoggedAndWorkerGoesOn]_vars
    /\ \A id \in 1..MaxJobs : Queued(id) ~> Logged(id)

C13_Witness ==
    /\ Cardinality(LiveWorkers) = 3
    /\ \E e, f, g \in job_log :
          /\ e.status = "failed" /\ e.type = "test_job"
          /\ f.status = "failed" /\ f.type = "bank_sync"
          /\ g.status = "completed" /\ g.id > e.id /\ g.id > f.id

\* C14: a job of type backup is run by the backup body, completes
\* successfully and leaves a compressed snapshot named by a timestamp
C14_BackupJobCompletes ==
    \A e \in job_log :
        e.type = "backup"
            => /\ e.status = "completed"
               /\ \E b \in backups : b.name[1] = "scheduled_backup"

----------------------------------------------------------------------------
(* Specification SpecPool: threads enter and leave get_connection scopes *)

NextPool ==
    \/ GetConnection
    \/ BlockedGetReturns
    \/ \E c \in Connections, how \in ScopeExits : ScopeExit(c, how)

InitPool == Init /\ redis_client /\ tz = 0
SpecPool == InitPool /\ [][NextPool]_vars

\* C15: the connections in the pool plus the connections held are always
\* the 10 of the pool's capacity, no connection has two holders, nobody
\* acquires a connection while all are held, and every scope exit, normal
\* or by exception, puts its connection back
HeldConnections == {c \in Connections : held[c] > 0}
PoolStep ==
    /\ pool = {} => \A c \in Connections : held'[c] <= held[c]
    /\ \A c \in Connections : held'[c] < held[c] => c \in pool'
C15_PoolConservesConnections ==
    /\ [](/\ Cardinality(pool) + Cardinality(HeldConnections) = 10
          /\ pool \cap HeldConnections = {}
          /\ \A c \in Connections : held[c] <= 1
          /\ waiting > 0 /\ last.outcome = "blocked" => pool = {})
    /\ [][PoolStep]_vars

C15_Witness ==
    /\ last.op = "scope_exit" /\ last.outcome = "exception"
    /\ waiting > 0
    /\ pool = {last.detail.conn}
    /\ Cardinality(HeldConnections) = 9

----------------------------------------------------------------------------
(* Specification SpecLocalCache: the cache manager used directly on its
   fallback table, with no Redis server *)

ManagerKeys   == {"k1", "k2"}
ManagerValues == {PyInt(1), PyInt(2)}
ManagerTtls   == {0, 150}

NextLocalCache ==
    \/ \E k \in ManagerKeys, v \in ManagerValues, t \in ManagerTtls, m \in Micros :
          ManagerSet(k, v, t, m)
    \/ \E k \in ManagerKeys : ManagerGet(k)
    \/ \E k \in ManagerKeys : ManagerDelete(k)
    \/ \E dt \in TickSteps : Tick(dt)

InitLocalCache == Init /\ ~redis_client
SpecLocalCache == InitLocalCache /\ [][NextLocalCache]_vars

\* C16: on the fallback store get(key) returns the value of the latest
\* set(key, value, ttl) exactly when fewer than ttl seconds (300 when no ttl
\* was given) have passed since it and no delete(key) followed, and nothing
\* otherwise
Unexpired(s) ==
    now - s.at < s.ttl \/ (now - s.at = s.ttl /\ s.micro > 0)
C16_GetReturnsUnexpiredValueOnly ==
    last.op = "cache_get"
        => LET fresh == {s \in set_log : s.key = last.detail.key /\ Unexpired(s)}
           IN  IF fresh = {} THEN last.detail.result = PyNone
               ELSE \A s \in fresh : last.detail.result = s.value

----------------------------------------------------------------------------
(* Specification SpecBudgets: budgets are added, updated and deleted while
   expenses are entered and actual_spent is refreshed *)

BudgetCategories == {"Rent", "Food"}
BudgetAmounts    == {5000, 6000}
BudgetIds        == 1..MaxBudgets
ExpenseInputs    == {Tx(Date1, "Bill", c, 100, "Expense") : c \in BudgetCategories}

NextBudgets ==
    \/ \E c \in BudgetCategories, m \in BudgetAmounts : AddBudget(c, m)
    \/ \E id \in BudgetIds, c \in BudgetCategories, m \in BudgetAmounts :
          UpdateBudget(id, c, m)
    \/ \E id \in BudgetIds : DeleteBudget(id)
    \/ UpdateActualSpent
    \/ \E tx \in ExpenseInputs : DbAddTransaction(tx)

InitBudgets == Init /\ redis_client /\ tz = 0
SpecBudgets == InitBudgets /\ [][NextBudgets]_vars

\* C18: the budgets table never holds two rows of one category, and
\* add_budget(category, m) for a category that has a row leaves that category
\* with monthly_budget m and the actual_spent it had, every other row unchanged
OneRowPerCategory ==
    \A a, b \in budgets : a.category = b.category => a = b
UpsertKeepsActualSpent ==
    \A old \in budgets :
        (last'.op = "add_budget" /\ last'.detail.category = old.category)
            => /\ \E new \in budgets' :
                     /\ new.category = old.category
                     /\ new.monthly_budget = last'.detail.monthly_budget
                     /\ new.actual_spent = old.actual_spent
               /\ {b \in budgets' : b.category # old.category}
                     = {b \in budgets : b.category # old.category}
C18_OneRowPerCategoryAndUpsert ==
    []OneRowPerCategory /\ [][UpsertKeepsActualSpent]_vars

C18_Witness ==
    /\ last.op = "add_budget"
    /\ \E b, c \in budgets :
          /\ b.category = last.detail.category
          /\ b.monthly_budget = last.detail.monthly_budget
          /\ b.actual_spent > 0
          /\ c.category # b.category

----------------------------------------------------------------------------
(* Specification SpecBudgetGrid: budgets are added and the budget grid is
   edited and saved *)

GridCategories == {"Rent", "Food", "Fuel"}
GridEdits      == {"keep", "budget", "category", "remove"}

\* what the editor makes of one row of the snapshot
EditedRow(row, edit) ==
    CASE edit = "keep"     -> <<row>>
      [] edit = "budget"   -> <<[row EXCEPT !.monthly_budget = 6000]>>
      [] edit = "category" -> <<[row EXCEPT !.category = "Food"]>>
      [] OTHER             -> <<>>
RECURSIVE EditedFrom(_, _)
EditedFrom(grid, edits) ==
    IF grid = <<>> THEN <<>>
    ELSE EditedRow(Head(grid), Head(edits)) \o EditedFrom(Tail(grid), Tail(edits))
AddedRows ==
    {<<>>, <<GridRow(NULL, "Misc", 5000)>>}
EditedGrids ==
    {EditedFrom(BudgetGrid, edits) \o added :
        edits \in {e \in [1..Len(BudgetGrid) -> GridEdits] :
                      \A i \in 1..Len(BudgetGrid) :
                          e[i] = "category" => Len(BudgetGrid) = 2 /\ i = 1},
        added \in AddedRows}

NextBudgetGrid ==
    \/ \E c \in GridCategories : AddBudget(c, 5000)
    \/ \E edited \in EditedGrids : SaveBudgetGrid(edited)

InitBudgetGrid == Init /\ redis_client /\ tz = 0
SpecBudgetGrid == InitBudgetGrid /\ [][NextBudgetGrid]_vars

\* C17: a save performs one insert per edited row without id, one update per
\* existing row whose category or monthly_budget was changed, one delete per
\* snapshot row absent from the edited grid, and no other write
SnapshotRow(snapshot, id) ==
    CHOOSE row \in {snapshot[i] : i \in 1..Len(snapshot)} : row.id = id
RowsOf(grid) == {grid[i] : i \in 1..Len(grid)}
C17_SaveWritesOncePerEdit ==
    last.op = "save_budget_grid"
        => LET snapshot == last.detail.snapshot
               edited   == last.detail.edited
           IN  /\ last.outcome = "ok"
               /\ last.detail.inserts =
                     Cardinality({i \in 1..Len(edited) : edited[i].id = NULL})
               /\ last.detail.updates =
                     Cardinality({row \in RowsOf(edited) :
                                     /\ row.id # NULL
                                     /\ row # SnapshotRow(snapshot, row.id)})
               /\ last.detail.deletes =
                     Cardinality({row \in RowsOf(snapshot) :
                                     \A e \in RowsOf(edited) : e.id # row.id})

----------------------------------------------------------------------------
(* Specification SpecBudgetAlerts: budgets are set, expenses entered,
   actual_spent refreshed, and the alert and variance computations run *)

AlertCategories == {"Rent", "Food"}
AlertBudgets    == {5000, 0}
AlertExpenses   == {Tx(Date1, "Bill", "Rent", a, "Expense") : a \in {4400, 100}}
AlertModules    == {"calculations", "database"}

NextBudgetAlerts ==
    \/ \E c \in AlertCategories, m \in AlertBudgets : AddBudget(c, m)
    \/ \E tx \in AlertExpenses : DbAddTransaction(tx)
    \/ UpdateActualSpent
    \/ \E module \in AlertModules : ShowBudgetAlerts(module)
    \/ ShowBudgetVariance

InitBudgetAlerts == Init /\ redis_client /\ tz = 0
SpecBudgetAlerts == InitBudgetAlerts /\ [][NextBudgetAlerts]_vars

\* C19: both alert checks flag a budget whose actual_spent is exactly 90% of
\* its monthly_budget (4500 of 5000) and do not flag 4400 of 5000
C19_ExactlyNinetyPercentIsFlagged ==
    last.op = "check_budget_alerts"
        => \A b \in budgets :
              /\ (b.monthly_budget > 0 /\ 10 * b.actual_spent = 9 * b.monthly_budget)
                    => b.category \in last.detail
              /\ (b.monthly_budget = 5000 /\ b.actual_spent = 4400)
                    => b.category \notin last.detail

\* C20: calculate_budget_variance gives every row variance = actual_spent -
\* monthly_budget and variance_percentage = variance / monthly_budget * 100,
\* and 0, never an infinite value, for a row whose monthly_budget is 0
C20_ZeroBudgetGivesZeroPercentage ==
    last.op = "calculate_budget_variance"
        => \A r \in last.detail :
              /\ r.variance = r.actual_spent - r.monthly_budget
              /\ r.variance_percentage.kind = "num"
              /\ IF r.monthly_budget = 0
                 THEN r.variance_percentage.n = 0
                 ELSE r.variance_percentage = Num(100 * r.variance, r.monthly_budget)

----------------------------------------------------------------------------
(* Users: create, change role, delete, log in *)

\* the second account takes the first one's email as its username
BobUser  == <<"bob", "bob@x.com", "pw1", "viewer">>
MailUser == <<"bob@x.com", "eve@x.com", "pw2", "accountant">>
SameName == <<"bob", "carl@x.com", "pw2", "viewer">>
SameMail == <<"carl", "bob@x.com", "pw2", "viewer">>
RootUser == <<"dan", "dan@x.com", "pw1", "root">>
UserInputs  == {BobUser, MailUser, SameName, SameMail, RootUser}
RoleInputs  == {"admin", "root"}
UserIds     == 1..MaxUsers
Identifiers == {"bob", "bob@x.com", "zoe"}
Passwords   == {"pw1", "pw2"}

InitUsers == Init /\ redis_client /\ tz = 0

NextUsers ==
    \/ \E u \in UserInputs : CreateUser(u[1], u[2], u[3], u[4], "s1")
    \/ \E id \in UserIds, r \in RoleInputs : UpdateUserRole(id, r)
    \/ \E id \in UserIds : DeleteUser(id)
    \/ \E i \in Identifiers, p \in Passwords : AuthenticateUser(i, p)

SpecUsers == InitUsers /\ [][NextUsers]_vars

UsersWellFormed ==
    /\ \A u, v \in users :
          u.id # v.id => (u.username # v.username /\ u.email # v.email)
    /\ \A u \in users : u.role \in valid_roles

\* a create_user call whose username or email is stored, or whose role is
\* not valid, fails and writes nothing
CreateUserRejects ==
    LET d == last'.detail
    IN  (last'.op = "create_user" /\ last' # last)
          => IF UsersMatching(d.username, d.email) # {} \/ d.role \notin valid_roles
             THEN last'.outcome = "ValueError" /\ users' = users
             ELSE TRUE

\* C21: create_user with a stored username or email, or with a role outside
\* admin, accountant, viewer, raises an error and leaves the table as it
\* was; after every step usernames are pairwise distinct, emails are
\* pairwise distinct and every stored role is one of the three.
C21_CreateUserRejectsAndTableStaysWellFormed ==
    [][CreateUserRejects /\ UsersWellFormed']_vars

\* a second account exists and a call repeating its email under another
\* username was refused
C21_Witness ==
    /\ last.op = "create_user" /\ last.outcome = "ValueError"
    /\ last.detail.role \in valid_roles
    /\ \E u \in users : u.email = last.detail.email /\ u.username # last.detail.username
    /\ Cardinality(users) = 2

\* C30: no string is the username of one user and the email of another, so
\* the query of authenticate_user matches at most one account and a login
\* is the login of the account owning the identifier.
C30_IdentifierResolvesToOneAccount ==
    /\ \A u, v \in users : u.id # v.id => u.username # v.email
    /\ last.op = "authenticate_user" => Cardinality(last.detail.matched) <= 1

----------------------------------------------------------------------------
(* Approval workflow over stored and unstored transactions *)

Amounts       == {0, 10000, 10001, 50000, 50001, 100000, 100001, 500001}
ApprovalRoles == {"admin", "finance_manager", "accountant", "employee", "viewer"}
TxRefs        == {NULL} \cup {Some(i) : i \in Ids}
Transactions  == [id : TxRefs, amount : Amounts]

InitApproval == Init /\ redis_client /\ tz = 0

NextApproval ==
    \/ DbAddTransaction(ValidTx)
    \/ \E id \in Ids : DbDeleteTransaction(id)
    \/ \E t \in Transactions, r \in ApprovalRoles : CheckRequiresApproval(t, r)
    \/ \E id \in TxRefs : CreateApprovalRequest(id, 7, <<4>>)
    \/ \E t \in Transactions, r \in ApprovalRoles : SubmitForApproval(t, 7, r)

SpecApproval == InitApproval /\ [][NextApproval]_vars

\* the transaction id names a stored row
Stored(transaction_id) ==
    transaction_id # NULL /\ \E r \in transactions : r.id = transaction_id[1]

\* C22: create_approval_request, and submit_for_approval when approval is
\* required, for a transaction id the repository does not hold fails with
\* ResourceNotFound and returns no approval request.
C22_MissingTransactionIsResourceNotFound ==
    /\ (last.op = "create_approval_request" /\ ~Stored(last.detail.transaction_id))
          => (last.outcome = "ResourceNotFound" /\ last.detail.request = NULL)
    /\ (last.op = "submit_for_approval" /\ ~Stored(last.detail.transaction.id)
          /\ last.detail.status # "processed")
          => (last.outcome = "ResourceNotFound" /\ last.detail.request = NULL)

\* the amount is strictly above the threshold the role has: admin none,
\* finance_manager 100000, accountant 50000, employee 10000, others 0
AboveThreshold(amount, role) ==
    CASE role = "admin"           -> FALSE
      [] role = "finance_manager" -> amount > 100000
      [] role = "accountant"      -> amount > 50000
      [] role = "employee"        -> amount > 10000
      [] OTHER                    -> amount > 0

RequiresApprovalIsExact ==
    last.op = "requires_approval"
       => (last.detail.result
             <=> AboveThreshold(last.detail.transaction.amount, last.detail.role))

Processed ==
    /\ last.outcome = "ok"
    /\ last.detail.status = "processed"
    /\ last.detail.request = NULL

PendingApproval ==
    /\ last.outcome = "ok"
    /\ last.detail.status = "pending_approval"
    /\ last.detail.request # NULL
    /\ last.detail.request[1].status = "pending"
    /\ last.detail.request[1].transaction_id = last.detail.transaction.id

\* C23 as stated: requires_approval is true exactly above the threshold, and
\* for every transaction and role submit_for_approval returns processed
\* without a request when no approval is needed and pending_approval with a
\* pending request otherwise.
C23_SubmitForEveryTransaction ==
    /\ RequiresApprovalIsExact
    /\ last.op = "submit_for_approval"
          => IF AboveThreshold(last.detail.transaction.amount, last.detail.role)
             THEN PendingApproval ELSE Processed

\* C23: requires_approval is true exactly above the threshold; submit
\* returns processed without a request when no approval is needed, and for
\* a transaction that is stored pending_approval with a pending request
\* when approval is needed.
C23_SubmitForStoredTransactions ==
    /\ RequiresApprovalIsExact
    /\ last.op = "submit_for_approval"
          => IF AboveThreshold(last.detail.transaction.amount, last.detail.role)
             THEN Stored(last.detail.transaction.id) => PendingApproval
             ELSE Processed

\* an accountant's stored transaction of 50001 went to approval
C23_Witness ==
    /\ last.op = "submit_for_approval"
    /\ last.detail.role = "accountant"
    /\ last.detail.transaction.amount = 50001
    /\ Stored(last.detail.transaction.id)
    /\ PendingApproval

----------------------------------------------------------------------------
(* Client portal: who may read the transactions *)

LaterTx     == Tx("2023-02-01", "Fee", "Sales", 40, "Expense")
PortalRoles == {"client", "admin", "accountant", "viewer", "employee"}

InitPortal == Init /\ redis_client /\ tz = 0

NextPortal ==
    \/ \E tx \in {ValidTx, LaterTx} : DbAddTransaction(tx)
    \/ \E id \in Ids : DbDeleteTransaction(id)
    \/ \E r \in PortalRoles : GetClientPermissions(1, r)
    \/ \E r \in PortalRoles : GetClientAccessibleTransactions(1, r)

SpecPortal == InitPortal /\ [][NextPortal]_vars

\* C24: for every role get_client_accessible_transactions succeeds exactly
\* when get_client_permissions reports view_transactions for the role, that
\* is for client, admin and accountant; for every other role it fails with
\* AccessDenied and returns no transaction; download_reports is true only
\* for admin and accountant.
C24_EnforcementAgreesWithPermissions ==
    /\ last.op = "get_client_accessible_transactions"
          => /\ last.outcome = "ok" <=> ClientPermissions(last.detail.role).view_transactions
             /\ last.outcome = "ok" <=> last.detail.role \in {"client", "admin", "accountant"}
             /\ last.outcome # "ok"
                   => (last.outcome = "AccessDenied" /\ last.detail.transactions = <<>>)
    /\ last.op = "get_client_permissions"
          => /\ last.detail.permissions.view_transactions
                   <=> last.detail.role \in {"client", "admin", "accountant"}
             /\ last.detail.permissions.download_reports
                   <=> last.detail.role \in {"admin", "accountant"}

\* a viewer was refused while two transactions were stored
C24_Witness ==
    /\ last.op = "get_client_accessible_transactions"
    /\ last.detail.role = "viewer"
    /\ last.outcome = "AccessDenied"
    /\ Cardinality(transactions) = 2

----------------------------------------------------------------------------
(* Scheduled backups over several days *)

DaySteps == {4}

InitScheduled == Init /\ redis_client /\ tz = 0

NextScheduled ==
    \/ \E copied \in BOOLEAN : PerformBackup(copied)
    \/ \E copied \in BOOLEAN : CreateCompressedBackup(<<>>, copied)
    \/ CleanupOldBackups
    \/ \E d \in DaySteps : DaysPass(d)

SpecScheduled == InitScheduled /\ [][NextScheduled]_vars

\* C25: after every run of perform_backup, whether or not the snapshot step
\* succeeded, no automated_backup_* file older than 7 days remains in the
\* backup directory, and the pruning deleted no file that is younger than 7
\* days or that is not named automated_backup_*.
C25_PerformBackupPrunesOldAutomatedBackups ==
    [][last'.op = "perform_backup"
         => /\ \A z \in zips' :
                  IsAutomated(z.name) => now - z.mtime <= 7 * SecondsPerDay
            /\ \A z \in zips :
                  (~IsAutomated(z.name) \/ now - z.mtime < 7 * SecondsPerDay)
                     => z.name \in {y.name : y \in zips'}]_vars

----------------------------------------------------------------------------
(* Two threads adding transactions at the same time *)

InitThreads == Init /\ redis_client /\ tz = 0

\* rows the calls in flight are about to insert
Inserting == Cardinality({t \in Threads : sessions[t].op = "add_transaction"})

NextThreads ==
    \/ \E t \in Threads :
          /\ tx_seq + Inserting < MaxId
          /\ Begin(t, "add_transaction", ValidTx)
    \/ \E t \in Threads : EndOfWith(t)
    \/ \E t \in Threads : ExecuteInsert(t)
    \/ \E t \in Threads : WaitEnds(t)
    \/ \E t \in Threads : BusyTimeout(t)
    \/ \E t \in Threads : Commit(t)
    \/ \E t \in Threads : Close(t)
    \/ \E dt \in TickSteps : Tick(dt)

SpecThreads == InitThreads /\ [][NextThreads]_vars

\* C26: a thread running a database operation holds the process-wide lock
\* from the opening of its connection through its statements, its commit
\* and its close, so that at no time two operations are between open and
\* close together.
C26_LockHeldFromOpenThroughClose ==
    /\ \A t \in InFlight : db_lock = t
    /\ Cardinality(InFlight) <= 1

----------------------------------------------------------------------------
(* Two initializers on a database made before loans had loan_direction *)

InitOldDatabase == Started(OldLoansColumns, {}) /\ redis_client /\ tz = 0

NextInitDb ==
    \/ \E t \in Threads : Begin(t, "init_db", <<>>)
    \/ \E t \in Threads : EndOfWith(t)
    \/ \E t \in Threads : ExecuteInsert(t)
    \/ \E t \in Threads : WaitEnds(t)
    \/ \E t \in Threads : BusyTimeout(t)
    \/ \E t \in Threads : PragmaTableInfo(t)
    \/ \E t \in Threads : AlterLoans(t)
    \/ \E t \in Threads : Commit(t)
    \/ \E t \in Threads : Close(t)
    \/ \E dt \in TickSteps : Tick(dt)

SpecInitDb == InitOldDatabase /\ [][NextInitDb]_vars

\* the initializers that saw loan_direction missing and have their ALTER
\* TABLE ahead or behind them
SawMissing ==
    {t \in Threads : sessions[t].missing /\ sessions[t].pc \in {"observed", "altered"}}

\* C27: with two initializers on a database whose loans table lacks
\* loan_direction, never both see the column missing and go on to add it;
\* every init_db call completes without error; the column is added once
\* and, the calls over, loans has the column and currencies one PKR row.
C27_ConcurrentInitDbIsSafe ==
    /\ Cardinality(SawMissing) <= 1
    /\ last.op = "init_db" => last.outcome = "ok"
    /\ alters <= 1
    /\ (last.op = "init_db" /\ InFlight = {})
          => /\ alters = 1
             /\ "loan_direction" \in loans_columns
             /\ currencies = {"PKR"}

----------------------------------------------------------------------------
(* The queue shared by the three workers *)

NextQueue ==
    \/ \E j \in JobInputs : AddJob(j[1], j[2])
    \/ \E w \in Workers : WorkerGet(w)
    \/ \E w \in Workers : WorkerRun(w)
    \/ GetQueueSize

SpecQueue == InitJobs /\ [][NextQueue]_vars

\* where the job with the id is: places in the queue, workers holding it,
\* and its line in the log
InQueue(id) == {i \in 1..Len(job_queue) : job_queue[i].id = id}
Holders(id) ==
    {w \in Workers : workers[w].state = "busy" /\ workers[w].job[1].id = id}
Places(id) ==
    Cardinality(InQueue(id)) + Cardinality(Holders(id))
        + (IF Logged(id) THEN 1 ELSE 0)

\* the jobs taken from the queue
Dequeued == {id \in JobIds : Holders(id) # {} \/ Logged(id)}

\* a get_queue_size call answers with the number of jobs put and not taken
QueueSizeIsExact ==
    (last'.op = "get_queue_size" /\ last' # last)
       => last'.detail.size = Cardinality(JobIds) - Cardinality(Dequeued)

\* C28: every job add_job accepted is at any time in one place: waiting in
\* the queue, held by one worker, or run and logged, so it is taken by one
\* worker and dispatched once; no accepted job is lost; get_queue_size
\* equals the number of jobs enqueued and not yet dequeued.
C28_EachJobTakenOnceAndSizeExact ==
    /\ [](\A id \in 1..MaxJobs :
             IF id < NextJobId THEN Places(id) = 1 ELSE Places(id) = 0)
    /\ [][QueueSizeIsExact]_vars

\* all three workers hold a job each
C28_Witness ==
    /\ \A w \in Workers : workers[w].state = "busy"
    /\ Cardinality({workers[w].job[1].id : w \in Workers}) = 3
    /\ last.op = "get_queue_size"

----------------------------------------------------------------------------
(* The running flag is cleared while jobs are queued and run *)

StopInputs == {<<"backup", TestData>>, <<"test_job", TestData>>}

NextShutdown ==
    \/ \E j \in StopInputs : AddJob(j[1], j[2])
    \/ \E w \in Workers : WorkerGet(w)
    \/ \E w \in Workers : WorkerRun(w)
    \/ \E w \in Workers : WorkerPollTimeout(w)
    \/ ClearRunning

SpecShutdown ==
    /\ InitJobs
    /\ [][NextShutdown]_vars
    /\ \A w \in Workers :
          WF_vars(WorkerGet(w)) /\ WF_vars(WorkerRun(w)) /\ WF_vars(WorkerPollTimeout(w))

AllReturned == \A w \in Workers : workers[w].state = "returned"

\* while the flag is set every queued job comes to be logged
QueuedJobsAreRun == \A id \in 1..MaxJobs : Queued(id) ~> (Logged(id) \/ ~is_running)

\* C29 as stated: while the flag stays set every queued job is eventually
\* taken and logged; once the flag is cleared no job still in the queue is
\* processed.
C29_NoJobIsTakenOnceFlagIsCleared ==
    /\ QueuedJobsAreRun
    /\ [][~is_running => \A w \in Workers :
             workers'[w].state = "busy" => workers[w].state = "busy"]_vars

\* with the flag cleared a worker that ends a job returns, a worker that
\* has returned stays so, and with all workers gone nothing is taken or logged
AfterClearing ==
    ~is_running =>
        /\ ~is_running'
        /\ \A w \in Workers :
              /\ workers[w].state = "busy" => workers'[w].state \in {"busy", "returned"}
              /\ workers[w].state = "returned" => workers'[w].state = "returned"
        /\ AllReturned => (job_log' = job_log /\ \A id \in 1..MaxJobs : Queued(id) => Queued(id)')

\* C29: while the flag stays set every queued job is eventually taken and
\* logged; once the flag is cleared each worker takes at most the job its
\* pending get() returns, runs it and leaves its loop, every worker does
\* leave, and from then on the jobs still in the queue are never processed.
C29_WorkersLeaveAfterAtMostOneMoreJob ==
    /\ QueuedJobsAreRun
    /\ [][AfterClearing]_vars
    /\ (~is_running) ~> AllReturned

\* the workers have left, one job was run and another is still queued
C29_Witness ==
    /\ ~is_running
    /\ AllReturned
    /\ job_queue # <<>>
    /\ job_log # {}

====
